---- MODULE Spec2Model ----
(***************************************************************************)
(* Placement-and-routing core of lamp-v2.                                  *)
(*                                                                         *)
(*   src/src/manhattan_router.py        ManhattanRouter (A*, MST, merge)   *)
(*   src/Archive/v2.4/src/circuit_placer_textbook*.py   topology, _rotate  *)
(*                                                                         *)
(* Costs of the A* search are floats in the source (1.0, 100.0, 0.5); all  *)
(* of them are multiples of 0.5, so the model keeps them exactly, counted  *)
(* in half units (2, 200, 1).                                              *)
(***************************************************************************)
EXTENDS Integers, Sequences, FiniteSets, TLC

(***************************************************************************)
(* Bounds of the model.                                                    *)
(***************************************************************************)
\* cells of the search inputs lie in 0..MaxCoord x 0..MaxCoord
MaxCoord == 2
\* largest number of blocked cells drawn for a search
MaxObstacles == 3
\* iterations of the search loop taken in one step of the model
SearchChunk == 64

VARIABLES
    components,     \* main: data['components'], the placed components
    nets,           \* main: data['nets'], routed in this order
    routed_wires,   \* main: the Wire of every net routed so far
    obstacles,      \* ManhattanRouter.obstacles: set of blocked grid cells
    wire_segments,  \* ManhattanRouter.wire_segments
    pc,             \* position inside main / the running route_net call
    pins,           \* route_net: pin_positions of the net being routed
    mst_edges,      \* route_net: pairs of pins still to connect, in order
    all_paths,      \* _route_multi_pins: all_paths
    start,          \* _astar: start cell
    goal,           \* _astar: goal cell
    open_set,       \* _astar: the heapq list of Node records
    closed_set,     \* _astar: expanded cells
    g_scores,       \* _astar: best g pushed so far, per cell
    came_from,      \* parent pointer of the Node expanded at each closed cell
    grid_path,      \* value returned by _astar (<<>> while it is running)
    in_flight,      \* net number -> locals of a route_net call running beside others
    sp_input,       \* _simplify_path: the path given to the first pass
    sp_path,        \* _simplify_path: result of the latest pass
    sp_prev,        \* _simplify_path: argument of the latest pass
    sp_passes,      \* number of passes of _simplify_path applied
    rot_offset,     \* _rotate: the pin offset (dx, dy) before any rotation
    rot_current,    \* _rotate: the offset after the rotations applied so far
    rot_count,      \* number of 90-degree rotations applied
    circuit,        \* the parsed netlist: circuit.components
    topology,       \* tag returned by circuit_placer_textbook._detect_topology
    topology_fixed, \* tag returned by circuit_placer_textbook_fixed._detect_topology
    t_components,   \* circuit_to_rm2 main: circuit.components (netlist_to_json format)
    t_library,      \* TemplatePlacer.library: type -> bbox and pins
    t_topology,     \* tag returned by TopologyDetector.detect_topology
    t_other,        \* a second declaration order of the netlist and its tag
    t_placed,       \* value returned by TemplatePlacer.place
    t_pc,           \* position inside circuit_to_rm2 main
    p_circuit,      \* TextbookCircuitPlacer.circuit.components
    p_version,      \* which placer runs: circuit_placer_textbook or ..._fixed
    p_hashable,     \* whether the component objects handed in are hashable
    p_library,      \* TextbookCircuitPlacer.library: type -> pin offsets
    p_topology,     \* place_circuit: topology
    p_placed,       \* TextbookCircuitPlacer.placed_components
    p_rerun,        \* placed_components of a second run on the same input
    p_wires,        \* TextbookCircuitPlacer.wires
    p_pc,           \* position inside place_circuit
    pr_placed,      \* _calculate_all_pin_positions: the placed component
    pr_offsets,     \* its library pins (dx, dy)
    pr_positions    \* the list _calculate_pin_positions of circuit_placer.py returns

astarVars == <<start, goal, open_set, closed_set, g_scores, came_from, grid_path>>
mainVars == <<components, nets, routed_wires>>
callVars == <<pins, mst_edges, all_paths>>
routerVars == <<mainVars, obstacles, wire_segments, pc, callVars, astarVars, in_flight>>
simplifyVars == <<sp_input, sp_path, sp_prev, sp_passes>>
rotateVars == <<rot_offset, rot_current, rot_count>>
topologyVars == <<circuit, topology, topology_fixed>>
templateVars == <<t_components, t_library, t_topology, t_other, t_placed, t_pc>>
placerVars == <<p_circuit, p_version, p_hashable, p_library, p_topology, p_placed,
                p_rerun, p_wires, p_pc>>
pinsVars == <<pr_placed, pr_offsets, pr_positions>>
layoutVars == <<templateVars, placerVars, pinsVars>>
vars == <<routerVars, simplifyVars, rotateVars, topologyVars, layoutVars>>

(***************************************************************************)
(* Small helpers.                                                          *)
(***************************************************************************)
Abs(n) == IF n < 0 THEN -n ELSE n

\* Python's "no parent" (None)
NoParent == <<>>

(***************************************************************************)
(* Cost model of _astar, in half units.                                    *)
(***************************************************************************)
MOVE_COST == 2
OBSTACLE_PENALTY == 200
TURN_PENALTY == 1

\* _heuristic: Manhattan distance (in half units)
heuristic(pos, g) == 2 * (Abs(pos[1] - g[1]) + Abs(pos[2] - g[2]))

\* _get_neighbors with a diagonal move in place of the move to the right
get_neighbors_diagonal(pos) ==
    << <<pos[1] + 1, pos[2] + 1>>, <<pos[1] - 1, pos[2]>>,
       <<pos[1], pos[2] + 1>>, <<pos[1], pos[2] - 1>> >>

\* _get_neighbors, in the order the source lists them
get_neighbors(pos) ==
    << <<pos[1] + 1, pos[2]>>, <<pos[1] - 1, pos[2]>>,
       <<pos[1], pos[2] + 1>>, <<pos[1], pos[2] - 1>> >>

\* _is_direction_change
is_direction_change(prev, current, next_pos) ==
    <<current[1] - prev[1], current[2] - prev[2]>>
        # <<next_pos[1] - current[1], next_pos[2] - current[2]>>

(***************************************************************************)
(* heapq on a list of Node records.  Node is ordered by f_score only       *)
(* (dataclass(order=True), every other field compare=False).  Positions    *)
(* are 0-based as in heapq; the sequence is 1-based.                       *)
(***************************************************************************)
NodeLess(a, b) == a.f_score < b.f_score

RECURSIVE siftdown(_, _, _)
siftdown(heap, pos, newitem) ==
    LET parentpos == (pos - 1) \div 2
    IN  IF pos > 0 /\ NodeLess(newitem, heap[parentpos + 1])
        THEN siftdown([heap EXCEPT ![pos + 1] = heap[parentpos + 1]],
                      parentpos, newitem)
        ELSE [heap EXCEPT ![pos + 1] = newitem]

RECURSIVE siftup(_, _, _)
siftup(heap, pos, newitem) ==
    LET endpos   == Len(heap)
        childpos == 2 * pos + 1
        rightpos == childpos + 1
        c == IF rightpos < endpos
                /\ ~NodeLess(heap[childpos + 1], heap[rightpos + 1])
             THEN rightpos ELSE childpos
    IN  IF childpos < endpos
        THEN siftup([heap EXCEPT ![pos + 1] = heap[c + 1]], c, newitem)
        ELSE siftdown([heap EXCEPT ![pos + 1] = newitem], pos, newitem)

heappush(heap, item) == siftdown(Append(heap, item), Len(heap), item)

\* heappop returns the popped item and the remaining heap
heappop(heap) ==
    LET lastelt == heap[Len(heap)]
        rest    == SubSeq(heap, 1, Len(heap) - 1)
    IN  IF rest # <<>>
        THEN [item |-> heap[1], heap |-> siftup(rest, 0, lastelt)]
        ELSE [item |-> lastelt, heap |-> rest]

(***************************************************************************)
(* _astar.                                                                 *)
(***************************************************************************)
Node(f, pos, g, parent) ==
    [f_score |-> f, position |-> pos, g_score |-> g, parent |-> parent]

\* move_cost that forgets the obstacle penalty
move_cost_no_penalty(obs, current, neighbor_pos) ==
    MOVE_COST
    + (IF current.parent # NoParent
          /\ is_direction_change(current.parent, current.position, neighbor_pos)
       THEN TURN_PENALTY ELSE 0)

\* move_cost with the obstacle test inverted
move_cost_inverted(obs, current, neighbor_pos) ==
    MOVE_COST
    + (IF neighbor_pos \notin obs THEN OBSTACLE_PENALTY ELSE 0)
    + (IF current.parent # NoParent
          /\ is_direction_change(current.parent, current.position, neighbor_pos)
       THEN TURN_PENALTY ELSE 0)

\* cost of the move current -> neighbor_pos (lines 231-241)
move_cost(obs, current, neighbor_pos) ==
    MOVE_COST
    + (IF neighbor_pos \in obs THEN OBSTACLE_PENALTY ELSE 0)
    + (IF current.parent # NoParent
          /\ is_direction_change(current.parent, current.position, neighbor_pos)
       THEN TURN_PENALTY ELSE 0)

\* the body of "for neighbor_pos in ..." for one neighbour; s = [open, g]
relax(obs, gl, closed, current, s, neighbor_pos) ==
    LET tentative_g == current.g_score + move_cost(obs, current, neighbor_pos)
    IN  IF neighbor_pos \in closed THEN s
        ELSE IF neighbor_pos \notin DOMAIN s.g \/ tentative_g < s.g[neighbor_pos]
        THEN [open |-> heappush(s.open,
                         Node(tentative_g + heuristic(neighbor_pos, gl),
                              neighbor_pos, tentative_g, current.position)),
              g    |-> (neighbor_pos :> tentative_g) @@ s.g]
        ELSE s

\* the whole for loop over the four neighbours
expand(obs, gl, closed, current, s) ==
    LET nb == get_neighbors(current.position)
        s1 == relax(obs, gl, closed, current, s, nb[1])
        s2 == relax(obs, gl, closed, current, s1, nb[2])
        s3 == relax(obs, gl, closed, current, s2, nb[3])
    IN  relax(obs, gl, closed, current, s3, nb[4])

\* "while node: path.append(node.position); node = node.parent", reversed
RECURSIVE reconstruct(_, _, _)
reconstruct(cf, pos, acc) ==
    IF cf[pos] = NoParent THEN <<pos>> \o acc
    ELSE reconstruct(cf, cf[pos], <<pos>> \o acc)

\* state of _astar at the first test of "while open_set"
AStarBegin(s, g) ==
    /\ start' = s
    /\ goal' = g
    /\ closed_set' = {}
    /\ came_from' = <<>>
    /\ IF s = g
       THEN /\ open_set' = <<>>
            /\ g_scores' = <<>>
            /\ grid_path' = <<s>>
       ELSE /\ open_set' = heappush(<<>>, Node(heuristic(s, g), s, 0, NoParent))
            /\ g_scores' = (s :> 0)
            /\ grid_path' = <<>>

\* One iteration of "while open_set" (lines 209-255), or the fall-through
\* return of line 258 when the heap is empty.  s holds the locals of
\* _astar: [open_set, closed_set, g_scores, came_from, grid_path].
astar_iteration(obs, st, gl, s) ==
    IF s.open_set = <<>>
    THEN [s EXCEPT !.grid_path = <<st, <<gl[1], st[2]>>, gl>>]
    ELSE LET popped  == heappop(s.open_set)
             current == popped.item
         IN  IF current.position = gl
             THEN [s EXCEPT !.open_set = popped.heap,
                            !.grid_path =
                               IF current.parent = NoParent THEN <<gl>>
                               ELSE reconstruct(s.came_from, current.parent, <<gl>>)]
             ELSE IF current.position \in s.closed_set
             THEN [s EXCEPT !.open_set = popped.heap]
             ELSE LET closed == s.closed_set \cup {current.position}
                      r == expand(obs, gl, closed, current,
                                  [open |-> popped.heap, g |-> s.g_scores])
                  IN  [open_set   |-> r.open,
                       closed_set |-> closed,
                       g_scores   |-> r.g,
                       came_from  |-> (current.position :> current.parent)
                                         @@ s.came_from,
                       grid_path  |-> s.grid_path]

\* up to n iterations of the loop, stopping when _astar returns
RECURSIVE astar_loop(_, _, _, _, _)
astar_loop(obs, st, gl, s, n) ==
    IF n = 0 \/ s.grid_path # <<>> THEN s
    ELSE astar_loop(obs, st, gl, astar_iteration(obs, st, gl, s), n - 1)

\* the search advances by at most SearchChunk iterations of its loop
AStarIter ==
    /\ pc = "astar"
    /\ grid_path = <<>>
    /\ LET s == astar_loop(obstacles, start, goal,
                           [open_set |-> open_set, closed_set |-> closed_set,
                            g_scores |-> g_scores, came_from |-> came_from,
                            grid_path |-> grid_path],
                           SearchChunk)
       IN  /\ open_set' = s.open_set
           /\ closed_set' = s.closed_set
           /\ g_scores' = s.g_scores
           /\ came_from' = s.came_from
           /\ grid_path' = s.grid_path
    /\ UNCHANGED <<mainVars, obstacles, wire_segments, pc, callVars, start, goal>>
    /\ UNCHANGED <<simplifyVars, rotateVars, topologyVars, layoutVars>>
    /\ UNCHANGED in_flight

(***************************************************************************)
(* Pixel <-> grid conversion.  int() truncates toward zero.                *)
(***************************************************************************)
\* main: ManhattanRouter(grid_size=10)
GRID_SIZE == 10

\* int(a / b) for b > 0
TruncDiv(a, b) == IF a >= 0 THEN a \div b ELSE -((-a) \div b)

\* _to_grid
to_grid(pos) == <<TruncDiv(pos[1], GRID_SIZE), TruncDiv(pos[2], GRID_SIZE)>>

\* _from_grid
from_grid(pos) == <<pos[1] * GRID_SIZE, pos[2] * GRID_SIZE>>

\* _manhattan_distance
manhattan_distance(p1, p2) == Abs(p1[1] - p2[1]) + Abs(p1[2] - p2[2])

(***************************************************************************)
(* set_obstacles_from_components.  A component is a record                 *)
(*   [reference, position = <<x, y>>, size = <<width, height>>,            *)
(*    pins = sequence of [id, position = <<x, y>>]].                       *)
(* (pos - size/2) / grid_size is computed on doubled numerators.           *)
(***************************************************************************)
component_cells(comp) ==
    LET x1 == TruncDiv(2 * comp.position[1] - comp.size[1], 2 * GRID_SIZE)
        y1 == TruncDiv(2 * comp.position[2] - comp.size[2], 2 * GRID_SIZE)
        x2 == TruncDiv(2 * comp.position[1] + comp.size[1], 2 * GRID_SIZE)
        y2 == TruncDiv(2 * comp.position[2] + comp.size[2], 2 * GRID_SIZE)
    IN  (x1..x2) \X (y1..y2)

set_obstacles_from_components(obs, comps) ==
    obs \cup UNION {component_cells(comps[i]) : i \in DOMAIN comps}

(***************************************************************************)
(* _simplify_path, _is_collinear, _merge_paths.                            *)
(***************************************************************************)
\* is_collinear testing the x axis only
is_collinear_x_only(p1, p2, p3) == p1[1] = p2[1] /\ p2[1] = p3[1]

is_collinear(p1, p2, p3) ==
    \/ (p1[1] = p2[1] /\ p2[1] = p3[1])
    \/ (p1[2] = p2[2] /\ p2[2] = p3[2])

\* the loop "for i in range(1, len(path) - 1)" from (1-based) index i on
RECURSIVE simplify_loop(_, _, _)
simplify_loop(path, i, simplified) ==
    IF i > Len(path) - 1 THEN Append(simplified, path[Len(path)])
    ELSE simplify_loop(path, i + 1,
            IF ~is_collinear(simplified[Len(simplified)], path[i], path[i + 1])
            THEN Append(simplified, path[i])
            ELSE simplified)

\* _simplify_path without the final simplified.append(path[-1])
simplify_path_drops_last(path) ==
    IF Len(path) <= 2 THEN path
    ELSE LET kept == simplify_loop(path, 2, <<path[1]>>)
         IN  SubSeq(kept, 1, Len(kept) - 1)

simplify_path(path) ==
    IF Len(path) <= 2 THEN path ELSE simplify_loop(path, 2, <<path[1]>>)

\* _merge_paths: keeps the first occurrence of every point.  The points are
\* integer pairs, on which round(v, 1) changes nothing.
RECURSIVE merge_loop(_, _, _, _)
merge_loop(paths, i, seen, unique_points) ==
    IF i > Len(paths) THEN unique_points
    ELSE IF paths[i] \in seen
         THEN merge_loop(paths, i + 1, seen, unique_points)
         ELSE merge_loop(paths, i + 1, seen \cup {paths[i]},
                         Append(unique_points, paths[i]))

merge_paths(paths) == merge_loop(paths, 1, {}, <<>>)

(***************************************************************************)
(* _build_mst: Prim's algorithm with a heap of (dist, i, j) tuples.  The   *)
(* tuples in the heap are pairwise different (each (i, j) is pushed at     *)
(* most once), tuples are ordered lexicographically, so heappop returns    *)
(* the least tuple: the heap is kept as a set.  Pins are numbered from 1   *)
(* here (from 0 in the source).                                            *)
(***************************************************************************)
TupleLess(a, b) ==
    \/ a[1] < b[1]
    \/ (a[1] = b[1] /\ a[2] < b[2])
    \/ (a[1] = b[1] /\ a[2] = b[2] /\ a[3] < b[3])

LeastTuple(S) == CHOOSE a \in S : \A b \in S \ {a} : TupleLess(a, b)

RECURSIVE prim_loop(_, _, _, _)
prim_loop(ps, visited, edges, candidates) ==
    IF ~(Cardinality(visited) < Len(ps) /\ candidates # {}) THEN edges
    ELSE LET c    == LeastTuple(candidates)
             rest == candidates \ {c}
             j    == c[3]
         IN  IF j \in visited THEN prim_loop(ps, visited, edges, rest)
             ELSE prim_loop(ps, visited \cup {j}, Append(edges, <<c[2], j>>),
                    rest \cup {<<manhattan_distance(ps[j], ps[k]), j, k>> :
                                 k \in (1..Len(ps)) \ (visited \cup {j})})

\* build_mst that never adds the edges of a newly visited pin
build_mst_star(ps) == [j \in 1..(Len(ps) - 1) |-> <<1, j + 1>>]

build_mst(ps) ==
    IF Len(ps) <= 1 THEN <<>>
    ELSE prim_loop(ps, {1}, <<>>,
            {<<manhattan_distance(ps[1], ps[j]), 1, j>> : j \in 2..Len(ps)})

(***************************************************************************)
(* route_net.                                                              *)
(***************************************************************************)
Wire(name, path) == [net_name |-> name, path |-> path]

\* "Get pin positions" (lines 73-87): endpoints whose component or pin is
\* not found are skipped
RECURSIVE collect_pins(_, _, _, _)
collect_pins(pin_refs, comps, i, acc) ==
    IF i > Len(pin_refs) THEN acc
    ELSE LET cs == {c \in DOMAIN comps : comps[c].reference = pin_refs[i][1]}
         IN  IF cs = {} THEN collect_pins(pin_refs, comps, i + 1, acc)
             ELSE LET comp == comps[CHOOSE c \in cs : \A d \in cs : c <= d]
                      qs == {q \in DOMAIN comp.pins : comp.pins[q].id = pin_refs[i][2]}
                  IN  IF qs = {} THEN collect_pins(pin_refs, comps, i + 1, acc)
                      ELSE collect_pins(pin_refs, comps, i + 1,
                             Append(acc,
                               comp.pins[CHOOSE q \in qs : \A r \in qs : q <= r].position))

\* "Get pin positions" without the two "continue" branches: an endpoint that
\* is not found contributes the origin
pin_positions_padded(net, comps) ==
    [i \in DOMAIN net.pins |->
        LET found == collect_pins(<<net.pins[i]>>, comps, 1, <<>>)
        IN  IF found = <<>> THEN <<0, 0>> ELSE found[1]]

pin_positions(net, comps) == collect_pins(net.pins, comps, 1, <<>>)

\* _route_two_pins after the search returned gp (lines 120-131)
pixel_path(s, e, gp) ==
    IF gp = <<>> THEN <<s, <<e[1], s[2]>>, e>>
    ELSE LET simplified == simplify_path(gp)
         IN  [i \in 1..Len(simplified) |-> from_grid(simplified[i])]

\* "Record wire segments for crossing detection" (lines 100-105)
path_segments(path) ==
    [i \in 1..(Len(path) - 1) |-> <<to_grid(path[i]), to_grid(path[i + 1])>>]

\* the pin pairs route_net connects, in order: the two pins of a 2-pin net,
\* the MST edges of a larger one
edges_to_route(ps) ==
    IF Len(ps) = 2 THEN << <<1, 2>> >> ELSE build_mst(ps)

\* main: router.set_obstacles_from_components(components)
SetObstacles ==
    /\ pc = "load"
    /\ obstacles' = set_obstacles_from_components(obstacles, components)
    /\ pc' = "idle"
    /\ UNCHANGED <<mainVars, wire_segments, callVars, astarVars>>
    /\ UNCHANGED <<simplifyVars, rotateVars, topologyVars, layoutVars>>
    /\ UNCHANGED in_flight

\* main calls route_net for the next net: lines 70-98 up to the first search
RouteNet ==
    /\ pc = "idle"
    /\ Len(routed_wires) < Len(nets)
    /\ LET net == nets[Len(routed_wires) + 1]
           ps  == pin_positions(net, components)
           es  == edges_to_route(ps)
       IN  IF Len(ps) < 2
           THEN /\ routed_wires' = Append(routed_wires, Wire(net.name, <<>>))
                /\ UNCHANGED <<pc, callVars, astarVars>>
           ELSE /\ pins' = ps
                /\ mst_edges' = es
                /\ all_paths' = <<>>
                /\ AStarBegin(to_grid(ps[es[1][1]]), to_grid(ps[es[1][2]]))
                /\ pc' = "astar"
                /\ UNCHANGED routed_wires
    /\ UNCHANGED <<components, nets, obstacles, wire_segments>>
    /\ UNCHANGED <<simplifyVars, rotateVars, topologyVars, layoutVars>>
    /\ UNCHANGED in_flight

\* route_net returning as below, but marking the first cell of the wire
\* as blocked when it records the segments
EdgeRouted_marks_wire ==
    /\ pc = "astar"
    /\ mst_edges # <<>>
    /\ grid_path # <<>>
    /\ LET e     == mst_edges[1]
           path  == pixel_path(pins[e[1]], pins[e[2]], grid_path)
           paths == all_paths \o path
           rest  == Tail(mst_edges)
       IN  IF rest # <<>>
           THEN /\ all_paths' = paths
                /\ mst_edges' = rest
                /\ AStarBegin(to_grid(pins[rest[1][1]]), to_grid(pins[rest[1][2]]))
                /\ UNCHANGED <<pc, pins, routed_wires, wire_segments>>
           ELSE LET final == IF Len(pins) = 2 THEN path ELSE merge_paths(paths)
                IN  /\ wire_segments' = wire_segments \o path_segments(final)
                    /\ routed_wires' =
                         Append(routed_wires,
                                Wire(nets[Len(routed_wires) + 1].name, final))
                    /\ pc' = "idle"
                    /\ all_paths' = paths
                    /\ mst_edges' = rest
                    /\ UNCHANGED <<pins, astarVars>>
    /\ obstacles' = IF Tail(mst_edges) # <<>> THEN obstacles
                    ELSE obstacles \cup {to_grid(pixel_path(pins[mst_edges[1][1]],
                                                            pins[mst_edges[1][2]],
                                                            grid_path)[1])}
    /\ UNCHANGED <<components, nets>>
    /\ UNCHANGED <<simplifyVars, rotateVars, topologyVars, layoutVars>>
    /\ UNCHANGED in_flight

\* a search returned: _route_two_pins converts its path; either the next
\* MST edge is searched, or route_net merges, records the segments and
\* returns the Wire (lines 100-107)
EdgeRouted ==
    /\ pc = "astar"
    /\ mst_edges # <<>>
    /\ grid_path # <<>>
    /\ LET e     == mst_edges[1]
           path  == pixel_path(pins[e[1]], pins[e[2]], grid_path)
           paths == all_paths \o path
           rest  == Tail(mst_edges)
       IN  IF rest # <<>>
           THEN /\ all_paths' = paths
                /\ mst_edges' = rest
                /\ AStarBegin(to_grid(pins[rest[1][1]]), to_grid(pins[rest[1][2]]))
                /\ UNCHANGED <<pc, pins, routed_wires, wire_segments>>
           ELSE LET final == IF Len(pins) = 2 THEN path ELSE merge_paths(paths)
                IN  /\ wire_segments' = wire_segments \o path_segments(final)
                    /\ routed_wires' =
                         Append(routed_wires,
                                Wire(nets[Len(routed_wires) + 1].name, final))
                    /\ pc' = "idle"
                    /\ all_paths' = paths
                    /\ mst_edges' = rest
                    /\ UNCHANGED <<pins, astarVars>>
    /\ UNCHANGED <<components, nets, obstacles>>
    /\ UNCHANGED <<simplifyVars, rotateVars, topologyVars, layoutVars>>
    /\ UNCHANGED in_flight

(***************************************************************************)
(* Each specification below drives one part of the program; the variables  *)
(* of the other parts rest at these values.                                *)
(***************************************************************************)
NotRun == "NOT_RUN"

RouterIdle ==
    /\ components = <<>>
    /\ nets = <<>>
    /\ routed_wires = <<>>
    /\ obstacles = {}
    /\ wire_segments = <<>>
    /\ pc = "unused"
    /\ pins = <<>>
    /\ mst_edges = <<>>
    /\ all_paths = <<>>
    /\ start = <<0, 0>>
    /\ goal = <<0, 0>>
    /\ open_set = <<>>
    /\ closed_set = {}
    /\ g_scores = <<>>
    /\ came_from = <<>>
    /\ grid_path = <<>>
    /\ in_flight = <<>>

SimplifyIdle ==
    sp_input = <<>> /\ sp_path = <<>> /\ sp_prev = <<>> /\ sp_passes = 0

RotateIdle ==
    rot_offset = <<0, 0>> /\ rot_current = <<0, 0>> /\ rot_count = 0

TopologyIdle ==
    circuit = <<>> /\ topology = NotRun /\ topology_fixed = NotRun

NoOther == [components |-> <<>>, topology |-> NotRun]

TemplateIdle ==
    /\ t_components = <<>> /\ t_library = <<>> /\ t_topology = NotRun
    /\ t_other = NoOther /\ t_placed = <<>> /\ t_pc = "unused"

NoRerun == [ran |-> FALSE, raised |-> FALSE, placed |-> <<>>]

PlacerIdle ==
    /\ p_circuit = <<>> /\ p_version = "unused" /\ p_hashable = FALSE
    /\ p_library = <<>> /\ p_topology = NotRun /\ p_placed = <<>>
    /\ p_rerun = NoRerun /\ p_wires = <<>> /\ p_pc = "unused"

NoPlaced ==
    [reference |-> NotRun, comp_type |-> NotRun, x |-> 0, y |-> 0,
     rotation |-> 0, pin_positions |-> <<>>]

PinsIdle ==
    pr_placed = NoPlaced /\ pr_offsets = <<>> /\ pr_positions = <<>>

LayoutIdle == TemplateIdle /\ PlacerIdle /\ PinsIdle

(***************************************************************************)
(* Specification of the search alone: every start, goal and obstacle set   *)
(* inside the window, then _astar runs to its return.  The goal cell is    *)
(* drawn among the cells that are not blocked and have a neighbour that is *)
(* not blocked: for a blocked or walled-in goal the search first expands   *)
(* every cell cheaper than the penalty (thousands of iterations);          *)
(* SpecDetour covers that case with chosen inputs.                         *)
(***************************************************************************)
Cells == (0..MaxCoord) \X (0..MaxCoord)

ObstacleSets == {o \in SUBSET Cells : Cardinality(o) <= MaxObstacles}

InitAStar ==
    /\ SimplifyIdle /\ RotateIdle /\ TopologyIdle /\ LayoutIdle
    /\ components = <<>>
    /\ nets = <<>>
    /\ routed_wires = <<>>
    /\ wire_segments = <<>>
    /\ pins = <<>>
    /\ mst_edges = <<>>
    /\ all_paths = <<>>
    /\ obstacles \in ObstacleSets
    /\ pc = "astar"
    /\ start \in Cells
    /\ goal \in {c \in Cells \ obstacles :
                    \E i \in 1..4 : get_neighbors(c)[i] \notin obstacles}
    /\ closed_set = {}
    /\ came_from = <<>>
    /\ IF start = goal
       THEN /\ open_set = <<>>
            /\ g_scores = <<>>
            /\ grid_path = <<start>>
       ELSE /\ open_set = heappush(<<>>, Node(heuristic(start, goal), start, 0, NoParent))
            /\ g_scores = (start :> 0)
            /\ grid_path = <<>>
    /\ in_flight = <<>>

NextAStar == AStarIter

\* _astar has returned its path
AStarReturned == pc = "astar" /\ grid_path # <<>>

SpecAStar == InitAStar /\ [][NextAStar]_vars

(***************************************************************************)
(* Specification of the router as main() drives it: a placed circuit is    *)
(* loaded, the obstacles are set from its components, then every net is    *)
(* routed in declaration order.                                            *)
(*                                                                         *)
(* The circuits: V1 at the origin, R1 and C1 on any of the anchors, each   *)
(* component with a pin one cell to the left and one cell to the right of  *)
(* its anchor; R1's body is one cell or a wall three cells high.  Anchors  *)
(* lie three cells apart in x, so no pin cell is blocked (see SpecAStar    *)
(* for why); one anchor is off the grid and one has negative coordinates.  *)
(***************************************************************************)
MaxAnchorCol == 1
MaxAnchorRow == 1

Anchors ==
    {<<3 * GRID_SIZE * i, GRID_SIZE * j>> : i \in 0..MaxAnchorCol, j \in 0..MaxAnchorRow}
        \cup {<<3 * GRID_SIZE + 5, GRID_SIZE + 5>>, <<-3 * GRID_SIZE, -GRID_SIZE>>}

BodySizes == {<<0, 0>>, <<0, 2 * GRID_SIZE>>}

Placed(ref, anchor, size) ==
    [reference |-> ref, position |-> anchor, size |-> size,
     pins |-> << [id |-> "1", position |-> <<anchor[1] - GRID_SIZE, anchor[2]>>],
                 [id |-> "2", position |-> <<anchor[1] + GRID_SIZE, anchor[2]>>] >>]

Layouts ==
    {<<Placed("V1", <<0, 0>>, <<0, 0>>), Placed("R1", a, sz), Placed("C1", b, <<0, 0>>)>> :
        a \in Anchors, b \in Anchors, sz \in BodySizes}

Net(name, pin_refs) == [name |-> name, pins |-> pin_refs]

NetlistSeries ==
    << Net("VIN",  << <<"V1", "2">>, <<"R1", "1">> >>),
       Net("VOUT", << <<"R1", "2">>, <<"C1", "1">> >>),
       Net("GND",  << <<"V1", "1">>, <<"C1", "2">> >>) >>

NetlistParallel ==
    << Net("VIN", << <<"V1", "2">>, <<"R1", "1">>, <<"C1", "1">> >>),
       Net("GND", << <<"V1", "1">>, <<"R1", "2">>, <<"C1", "2">> >>) >>

\* a 4-pin net, a net with an unknown component, a net with an unknown pin
NetlistMixed ==
    << Net("BUS",  << <<"C1", "2">>, <<"V1", "1">>, <<"R1", "2">>, <<"R1", "1">> >>),
       Net("OPEN", << <<"C1", "1">>, <<"X9", "1">> >>),
       Net("HALF", << <<"V1", "2">>, <<"R1", "3">>, <<"C1", "1">> >>) >>

Netlists == {NetlistSeries, NetlistParallel, NetlistMixed}

InitRouter ==
    /\ SimplifyIdle /\ RotateIdle /\ TopologyIdle /\ LayoutIdle
    /\ components \in Layouts
    /\ nets \in Netlists
    /\ routed_wires = <<>>
    /\ obstacles = {}
    /\ wire_segments = <<>>
    /\ pc = "load"
    /\ pins = <<>>
    /\ mst_edges = <<>>
    /\ all_paths = <<>>
    /\ start = <<0, 0>>
    /\ goal = <<0, 0>>
    /\ open_set = <<>>
    /\ closed_set = {}
    /\ g_scores = <<>>
    /\ came_from = <<>>
    /\ grid_path = <<>>
    /\ in_flight = <<>>

NextRouter == SetObstacles \/ RouteNet \/ AStarIter \/ EdgeRouted

SpecRouter == InitRouter /\ [][NextRouter]_vars

(***************************************************************************)
(* Specification of the router on circuits where two components wall off   *)
(* the straight line between the pins of a 2-pin net.  Terminals J1 and J2 *)
(* face each other on a row (or, transposed, a column), FarPin cells       *)
(* apart; each of the components W1 and W2 covers a column strip crossing  *)
(* the row between them, and together they block every cell between the    *)
(* pins.  One circuit has a wall reaching TallWall cells to either side.   *)
(***************************************************************************)
MaxWall == 2
FarPin == 3
TallWall == 49
HighWall == 48

\* transposition of a point when the circuit is laid out on a column
Flip(t, p) == IF t THEN <<p[2], p[1]>> ELSE p

\* a component whose box rasterizes to column col, rows lo..hi
Strip(ref, t, col, lo, hi) ==
    [reference |-> ref,
     position |-> Flip(t, <<GRID_SIZE * col, (GRID_SIZE \div 2) * (lo + hi)>>),
     size |-> Flip(t, <<0, GRID_SIZE * (hi - lo)>>),
     pins |-> <<>>]

Terminal(ref, t, body, pin) ==
    [reference |-> ref, position |-> Flip(t, <<GRID_SIZE * body, 0>>), size |-> <<0, 0>>,
     pins |-> << [id |-> "1", position |-> Flip(t, <<GRID_SIZE * pin, 0>>)] >>]

WallLayout(t, far, c1, lo1, hi1, c2, lo2, hi2) ==
    << Terminal("J1", t, -1, 0), Terminal("J2", t, far + 1, far),
       Strip("W1", t, c1, lo1, hi1), Strip("W2", t, c2, lo2, hi2) >>

\* the column pairs that cover every column between the pins
CoveringColumns(far) ==
    {c \in (1..(far - 1)) \X (1..(far - 1)) : \A x \in 1..(far - 1) : x \in {c[1], c[2]}}

WallLayouts(t, far) ==
    {WallLayout(t, far, c[1], w[1], w[2], c[2], w[3], w[4]) :
        c \in CoveringColumns(far),
        w \in ((-MaxWall)..0) \X (0..MaxWall) \X ((-MaxWall)..0) \X (0..MaxWall)}

DetourLayouts == UNION {WallLayouts(t, far) : t \in BOOLEAN, far \in 2..FarPin}

TallLayout == WallLayout(FALSE, 2, 1, -TallWall, 0, 1, 0, TallWall)

\* walls just short of the tall one
HighLayouts ==
    {WallLayout(FALSE, 2, 1, -reach, 0, 1, 0, reach) : reach \in (HighWall - 1)..HighWall}

NetJ1J2 == << Net("N1", << <<"J1", "1">>, <<"J2", "1">> >>) >>
NetJ2J1 == << Net("N1", << <<"J2", "1">>, <<"J1", "1">> >>) >>

\* (components, nets) of the circuits: every small wall with the net in
\* both directions, the high walls and the tall wall with the net from J1 to J2
DetourCircuits ==
    (DetourLayouts \X {NetJ1J2, NetJ2J1})
        \cup ((HighLayouts \cup {TallLayout}) \X {NetJ1J2})

InitDetour ==
    /\ SimplifyIdle /\ RotateIdle /\ TopologyIdle /\ LayoutIdle
    /\ \E c \in DetourCircuits : components = c[1] /\ nets = c[2]
    /\ routed_wires = <<>>
    /\ obstacles = {}
    /\ wire_segments = <<>>
    /\ pc = "load"
    /\ pins = <<>>
    /\ mst_edges = <<>>
    /\ all_paths = <<>>
    /\ start = <<0, 0>>
    /\ goal = <<0, 0>>
    /\ open_set = <<>>
    /\ closed_set = {}
    /\ g_scores = <<>>
    /\ came_from = <<>>
    /\ grid_path = <<>>
    /\ in_flight = <<>>

NextDetour == SetObstacles \/ RouteNet \/ AStarIter \/ EdgeRouted

SpecDetour == InitDetour /\ [][NextDetour]_vars

(***************************************************************************)
(* _astar called with a goal cell that is itself blocked: a pin that lies  *)
(* inside the rasterized box of a component.                               *)
(***************************************************************************)
\* (start, goal, obstacles) of the calls: the goal is the only blocked
\* cell; start and goal are both blocked; the goal is walled in
BlockedGoalCalls ==
    { << <<0, 0>>, <<1, 0>>, {<<1, 0>>} >>,
      << <<0, 0>>, <<0, 1>>, {<<0, 1>>} >>,
      << <<0, 0>>, <<1, 1>>, {<<0, 0>>, <<1, 1>>} >>,
      << <<0, 0>>, <<2, 0>>, {<<1, 0>>, <<3, 0>>, <<2, 1>>, <<2, -1>>} >> }

InitBlocked ==
    /\ SimplifyIdle /\ RotateIdle /\ TopologyIdle /\ LayoutIdle
    /\ components = <<>>
    /\ nets = <<>>
    /\ routed_wires = <<>>
    /\ wire_segments = <<>>
    /\ pins = <<>>
    /\ mst_edges = <<>>
    /\ all_paths = <<>>
    /\ pc = "astar"
    /\ \E call \in BlockedGoalCalls :
          /\ start = call[1]
          /\ goal = call[2]
          /\ obstacles = call[3]
    /\ closed_set = {}
    /\ came_from = <<>>
    /\ open_set = heappush(<<>>, Node(heuristic(start, goal), start, 0, NoParent))
    /\ g_scores = (start :> 0)
    /\ grid_path = <<>>
    /\ in_flight = <<>>

NextBlocked == AStarIter

SpecBlocked == InitBlocked /\ [][NextBlocked]_vars

(***************************************************************************)
(* _astar on every input of the two specifications above.                  *)
(***************************************************************************)
InitSoft == InitAStar \/ InitBlocked

NextSoft == AStarIter

SpecSoft == InitSoft /\ [][NextSoft]_vars

(***************************************************************************)
(* Specification of the simplification: _route_two_pins hands the path     *)
(* _astar returned to _simplify_path (line 126), its only caller.  Every   *)
(* search of SpecAStar runs to its return, then the path is simplified,    *)
(* and the result is simplified once more.                                 *)
(***************************************************************************)
InitSimplify == InitAStar

\* simplified = self._simplify_path(grid_path), then a pass over the result
SimplifyPass ==
    /\ AStarReturned
    /\ sp_passes < 2
    /\ sp_input' = grid_path
    /\ sp_prev' = IF sp_passes = 0 THEN grid_path ELSE sp_path
    /\ sp_path' = simplify_path(IF sp_passes = 0 THEN grid_path ELSE sp_path)
    /\ sp_passes' = sp_passes + 1
    /\ UNCHANGED <<routerVars, rotateVars, topologyVars, layoutVars>>

NextSimplify == AStarIter \/ SimplifyPass

SpecSimplify == InitSimplify /\ [][NextSimplify]_vars

(***************************************************************************)
(* CircuitRenderer._rotate / GridRouter._rotate (the two are identical),   *)
(* applied with rotation 90 again and again to a pin offset.               *)
(***************************************************************************)
MaxOffset == 3

\* _rotate with the second component of the 90-degree case mistyped
rotate_typo(dx, dy, rotation) ==
    CASE rotation = 0   -> <<dx, dy>>
      [] rotation = 90  -> <<-dy, dy>>
      [] rotation = 180 -> <<-dx, -dy>>
      [] rotation = 270 -> <<dy, -dx>>
      [] OTHER          -> <<dx, dy>>

rotate(dx, dy, rotation) ==
    CASE rotation = 0   -> <<dx, dy>>
      [] rotation = 90  -> <<-dy, dx>>
      [] rotation = 180 -> <<-dx, -dy>>
      [] rotation = 270 -> <<dy, -dx>>
      [] OTHER          -> <<dx, dy>>

InitRotate ==
    /\ RouterIdle /\ SimplifyIdle /\ TopologyIdle /\ LayoutIdle
    /\ rot_offset \in ((-MaxOffset)..MaxOffset) \X ((-MaxOffset)..MaxOffset)
    /\ rot_current = rot_offset
    /\ rot_count = 0

Rotate90 ==
    /\ rot_count < 4
    /\ rot_current' = rotate(rot_current[1], rot_current[2], 90)
    /\ rot_count' = rot_count + 1
    /\ UNCHANGED <<rot_offset, routerVars, simplifyVars, topologyVars, layoutVars>>

NextRotate == Rotate90

SpecRotate == InitRotate /\ [][NextRotate]_vars

(***************************************************************************)
(* _detect_topology of circuit_placer_textbook.py and of                   *)
(* circuit_placer_textbook_fixed.py.  A netlist component is a record      *)
(* [reference, comp_type, node1, node2].                                   *)
(***************************************************************************)
comp_nodes(comp) == <<comp.node1, comp.node2>>

\* node_connections[node]: terminals on the node, over all components
\* (0 for a node the dict has no key for); skipped names are never counted
node_connections(comps, skipped, node) ==
    IF node \in skipped THEN 0
    ELSE Cardinality({t \in (DOMAIN comps) \X {1, 2} :
                        comp_nodes(comps[t[1]])[t[2]] = node})

all_nodes(comps) == UNION {{comps[i].node1, comps[i].node2} : i \in DOMAIN comps}

\* circuit_placer_textbook.py, lines 83-122
detect_topology(comps) ==
    LET IsSource(c)  == c.comp_type \in {"VDC", "VAC"}
        IsPassive(c) == c.comp_type \notin {"VDC", "VAC", "GND"}
        sources  == SelectSeq(comps, IsSource)
        passives == SelectSeq(comps, IsPassive)
        intermediate_nodes ==
            {n \in all_nodes(comps) : node_connections(comps, {"GND"}, n) = 2}
        first_nodes == {passives[1].node1, passives[1].node2}
    IN  IF sources = <<>> \/ passives = <<>> THEN "GENERIC"
        ELSE IF Cardinality(intermediate_nodes) = Len(passives) - 1 THEN "SERIES"
        ELSE IF /\ Len(passives) >= 2
                /\ \A i \in 2..Len(passives) :
                      {passives[i].node1, passives[i].node2} = first_nodes
             THEN "PARALLEL"
        ELSE "GENERIC"

\* circuit_placer_textbook_fixed.py, lines 88-122
detect_topology_fixed(comps) ==
    LET IsSource(c)  == c.comp_type \in {"VDC", "VAC", "V"}
        IsPassive(c) == c.comp_type \notin {"VDC", "VAC", "V", "GND"}
        sources  == SelectSeq(comps, IsSource)
        passives == SelectSeq(comps, IsPassive)
        intermediate_nodes ==
            {n \in all_nodes(comps) : node_connections(comps, {"0", "GND"}, n) = 2}
        first_nodes == {passives[1].node1, passives[1].node2} \ {"0", "GND"}
    IN  IF sources = <<>> \/ passives = <<>> THEN "GENERIC"
        ELSE IF Cardinality(intermediate_nodes) = Len(passives) - 1 THEN "SERIES"
        ELSE IF /\ Len(passives) >= 2
                /\ \A i \in 2..Len(passives) :
                      {passives[i].node1, passives[i].node2} \ {"0", "GND"} = first_nodes
             THEN "PARALLEL"
        ELSE "GENERIC"

MaxComponents == 3

NodeNames == {"VIN", "VOUT", "GND"}
TypeTags == {"VDC", "R", "C"}

Component(ref, type, n1, n2) ==
    [reference |-> ref, comp_type |-> type, node1 |-> n1, node2 |-> n2]

\* references: the type's letter and the component's number among its type
RefOf(types, i) ==
    LET k == Cardinality({j \in 1..i : types[j] = types[i]})
    IN  (IF types[i] = "VDC" THEN "V" ELSE types[i])
            \o (CASE k = 1 -> "1" [] k = 2 -> "2" [] k = 3 -> "3" [] OTHER -> "4")

Circuits ==
    UNION {{[i \in 1..n |-> Component(RefOf([j \in 1..n |-> c[j][1]], i),
                                      c[i][1], c[i][2], c[i][3])] :
              c \in [1..n -> TypeTags \X NodeNames \X NodeNames]} :
           n \in 1..MaxComponents}

\* the RC low-pass of the specification: V1 (VIN, GND), R1 (VIN, VOUT), C1 (VOUT, GND)
RCFilter ==
    << Component("V1", "VDC", "VIN", "GND"),
       Component("R1", "R", "VIN", "VOUT"),
       Component("C1", "C", "VOUT", "GND") >>

InitTopology ==
    /\ RouterIdle /\ SimplifyIdle /\ RotateIdle /\ LayoutIdle
    /\ circuit \in Circuits
    /\ topology = NotRun
    /\ topology_fixed = NotRun

DetectTopology ==
    /\ topology = NotRun
    /\ topology' = detect_topology(circuit)
    /\ UNCHANGED <<circuit, topology_fixed, routerVars, simplifyVars, rotateVars, layoutVars>>

DetectTopologyFixed ==
    /\ topology_fixed = NotRun
    /\ topology_fixed' = detect_topology_fixed(circuit)
    /\ UNCHANGED <<circuit, topology, routerVars, simplifyVars, rotateVars, layoutVars>>

NextTopology == DetectTopology \/ DetectTopologyFixed

SpecTopology == InitTopology /\ [][NextTopology]_vars

(***************************************************************************)
(* The pipeline of circuit_to_rm2.py up to the placement: the netlist as   *)
(* netlist_to_json.NetlistParser returns it, TopologyDetector and          *)
(* TemplatePlacer of template_placer.py.  Library widths and heights are   *)
(* even numbers of pixels, so that every coordinate is an integer.         *)
(***************************************************************************)
NetlistComponent(ref, type, nodes) ==
    [reference |-> ref, component_type |-> type, nodes |-> nodes]

\* the node names n with n.upper() == 'GND': every spelling of gnd
GroundSpellings == {"GND", "GNd", "GnD", "Gnd", "gND", "gNd", "gnD", "gnd"}

\* _build_nets: node_name == '0' or node_name.upper() == 'GND' names the net GND
normalize_node(node) ==
    IF node = "0" \/ node \in GroundSpellings THEN "GND" ELSE node

pin_id_of(pin_idx) ==
    CASE pin_idx = 1 -> "1" [] pin_idx = 2 -> "2" [] pin_idx = 3 -> "3"
      [] pin_idx = 4 -> "4" [] OTHER -> "5"

\* the terminals of the netlist in declaration order: <<reference, pin_id, net name>>
RECURSIVE terminals(_)
terminals(comps) ==
    IF comps = <<>> THEN <<>>
    ELSE LET comp == Head(comps)
         IN  [k \in 1..Len(comp.nodes) |->
                  <<comp.reference, pin_id_of(k), normalize_node(comp.nodes[k])>>]
             \o terminals(Tail(comps))

\* net names in the order the dict node_to_net first sees them
RECURSIVE net_names(_, _)
net_names(terms, seen) ==
    IF terms = <<>> THEN seen
    ELSE net_names(Tail(terms),
                   IF \E i \in DOMAIN seen : seen[i] = Head(terms)[3]
                   THEN seen ELSE Append(seen, Head(terms)[3]))

build_nets(comps) ==
    LET terms == terminals(comps)
        names == net_names(terms, <<>>)
        OnNet(name) == LET Touches(t) == t[3] = name IN SelectSeq(terms, Touches)
    IN  [n \in DOMAIN names |->
            [name |-> names[n],
             pins |-> [k \in DOMAIN OnNet(names[n]) |->
                          <<OnNet(names[n])[k][1], OnNet(names[n])[k][2]>>]]]

\* degree_2_count >= len(node_degrees) * 0.6
is_series_topology(netlist) ==
    LET degree_2_count == Cardinality({n \in DOMAIN netlist : Len(netlist[n].pins) = 2})
    IN  5 * degree_2_count >= 3 * Len(netlist)

is_parallel_topology(netlist) ==
    \E n \in DOMAIN netlist : Len(netlist[n].pins) > 2

is_voltage_divider(comps, netlist) ==
    /\ Cardinality({i \in DOMAIN comps : comps[i].component_type = "R"}) = 2
    /\ is_series_topology(netlist)

\* TopologyDetector.detect_topology
template_detect(comps, netlist) ==
    LET OfType(types) == LET Is(c) == c.component_type \in types IN SelectSeq(comps, Is)
        sources  == OfType({"VDC", "VAC", "IDC"})
        passives == OfType({"R", "C", "L"})
        active   == OfType({"OPAMP", "NPN_BJT", "PNP_BJT", "N_MOSFET", "P_MOSFET"})
    IN  IF Len(active) > 0 THEN
            IF Len(active) = 1 /\ active[1].component_type = "OPAMP" THEN "opamp_circuit"
            ELSE IF Len(passives) >= 3 THEN "oscillator"
            ELSE "amplifier"
        ELSE IF Len(sources) = 1 /\ Len(passives) >= 2 THEN
            IF is_series_topology(netlist) THEN
                IF Len(passives) = 2 /\ passives[1].component_type = "R"
                                     /\ passives[2].component_type = "C" THEN "rc_filter"
                ELSE IF Len(passives) = 2 /\ passives[1].component_type = "R"
                                          /\ passives[2].component_type = "L" THEN "rl_filter"
                ELSE IF Len(passives) = 3 THEN "rlc_filter"
                ELSE "series"
            ELSE IF is_parallel_topology(netlist) THEN "parallel"
            ELSE IF is_voltage_divider(comps, netlist) THEN "voltage_divider"
            ELSE "series"
        ELSE "series"

\* TemplatePlacer.COMPONENT_SPACING, VERTICAL_SPACING, MARGIN
COMPONENT_SPACING == 250
VERTICAL_SPACING == 200
MARGIN == 150

KeyError == "KeyError"

\* what a placement method does: raise KeyError, or return the placed list
Raised == [raised |-> TRUE, placed |-> <<>>]
Returned(placed) == [raised |-> FALSE, placed |-> placed]

Missing(comps, library) ==
    \E i \in DOMAIN comps : comps[i].component_type \notin DOMAIN library

\* _calculate_pin_positions: library pins are relative to the bounding box,
\* kept here as twice the fraction (0, 1, 2 for 0, 0.5, 1)
template_pin_positions(placed_comp, comp_data) ==
    [k \in DOMAIN comp_data.pins |->
        [component_ref |-> placed_comp.reference,
         pin_id |-> comp_data.pins[k].id,
         x |-> placed_comp.x - placed_comp.width \div 2
                 + (comp_data.pins[k].x2 * placed_comp.width) \div 2,
         y |-> placed_comp.y - placed_comp.height \div 2
                 + (comp_data.pins[k].y2 * placed_comp.height) \div 2,
         angle |-> comp_data.pins[k].angle]]

TemplatePlaced(comp, x, y, comp_data) ==
    LET bare == [reference |-> comp.reference, component_type |-> comp.component_type,
                 x |-> x, y |-> y,
                 width |-> comp_data.bbox.width, height |-> comp_data.bbox.height,
                 rotation |-> 0, pins |-> <<>>]
    IN  [bare EXCEPT !.pins = template_pin_positions(bare, comp_data)]

\* the loop of _place_series over the ordered components
RECURSIVE series_loop(_, _, _, _)
series_loop(ordered, library, current_x, placed) ==
    IF ordered = <<>> THEN placed
    ELSE LET comp == Head(ordered)
             comp_data == library[comp.component_type]
             width == comp_data.bbox.width
         IN  series_loop(Tail(ordered), library,
                         current_x + width + COMPONENT_SPACING,
                         Append(placed,
                                TemplatePlaced(comp, current_x + width \div 2,
                                               400, comp_data)))

template_place_series(comps, library) ==
    LET OfType(types) == LET Is(c) == c.component_type \in types IN SelectSeq(comps, Is)
        ordered == OfType({"VDC", "VAC"}) \o OfType({"R", "L", "C", "D", "ZD"})
                     \o OfType({"GND"})
    IN  IF Missing(ordered, library) THEN Raised
        ELSE Returned(series_loop(ordered, library, MARGIN, <<>>))

template_place_parallel(comps, library) ==
    LET OfType(types) == LET Is(c) == c.component_type \in types IN SelectSeq(comps, Is)
        sources  == OfType({"VDC", "VAC"})
        passives == OfType({"R", "C", "L"})
        grounds  == OfType({"GND"})
        start_x  == MARGIN + 300
        start_y  == 200
    IN  IF sources # <<>> /\ sources[1].component_type \notin DOMAIN library THEN Raised
        ELSE IF Missing(passives, library) THEN Raised
        ELSE IF grounds # <<>> /\ "GND" \notin DOMAIN library THEN Raised
        ELSE Returned(
             (IF sources = <<>> THEN <<>>
              ELSE << TemplatePlaced(sources[1], MARGIN, 400,
                                     library[sources[1].component_type]) >>)
             \o [i \in DOMAIN passives |->
                    TemplatePlaced(passives[i], start_x,
                                   start_y + (i - 1) * VERTICAL_SPACING,
                                   library[passives[i].component_type])]
             \o (IF grounds = <<>> THEN <<>>
                 ELSE << TemplatePlaced(grounds[1], start_x + 300, 400, library["GND"]) >>))

\* _place_voltage_divider
RECURSIVE divider_loop(_, _, _, _)
divider_loop(ordered, library, current_y, placed) ==
    IF ordered = <<>> THEN placed
    ELSE LET comp == Head(ordered)
             comp_data == library[comp.component_type]
             height == comp_data.bbox.height
         IN  divider_loop(Tail(ordered), library,
                          current_y + height + VERTICAL_SPACING,
                          Append(placed,
                                 TemplatePlaced(comp, 500, current_y + height \div 2,
                                                comp_data)))

template_place_voltage_divider(comps, library) ==
    LET OfType(types) == LET Is(c) == c.component_type \in types IN SelectSeq(comps, Is)
        sources == OfType({"VDC", "VAC"})
        grounds == OfType({"GND"})
        First(cs) == IF cs = <<>> THEN <<>> ELSE <<cs[1]>>
        ordered == First(sources) \o OfType({"R"}) \o First(grounds)
    IN  IF Missing(ordered, library) THEN Raised
        ELSE Returned(divider_loop(ordered, library, MARGIN, <<>>))

\* TemplatePlacer.place
template_place(comps, library, tag) ==
    IF tag \in {"series", "rc_filter", "rl_filter", "rlc_filter"}
        THEN template_place_series(comps, library)
    ELSE IF tag = "voltage_divider" THEN template_place_voltage_divider(comps, library)
    ELSE IF tag = "parallel" THEN template_place_parallel(comps, library)
    ELSE template_place_series(comps, library)

MaxNetlist == 3

LibraryPin(id, x2, y2, angle) == [id |-> id, x2 |-> x2, y2 |-> y2, angle |-> angle]

LibraryEntry(width, height, pin_list) ==
    [bbox |-> [width |-> width, height |-> height], pins |-> pin_list]

TwoPinHorizontal(width, height) ==
    LibraryEntry(width, height, << LibraryPin("1", 0, 1, 180), LibraryPin("2", 2, 1, 0) >>)

TwoPinVertical(width, height) ==
    LibraryEntry(width, height, << LibraryPin("1", 1, 0, 90), LibraryPin("2", 1, 2, 270) >>)

FullLibrary ==
    [type \in {"VDC", "R", "C", "L", "D", "GND"} |->
        CASE type = "VDC" -> TwoPinVertical(60, 100)
          [] type = "GND" -> LibraryEntry(40, 20, << LibraryPin("1", 1, 0, 90) >>)
          [] type = "C"   -> TwoPinHorizontal(40, 60)
          [] OTHER        -> TwoPinHorizontal(80, 20)]

Without(library, type) == [t \in DOMAIN library \ {type} |-> library[t]]

Libraries == {FullLibrary, Without(FullLibrary, "D"), Without(FullLibrary, "C")}

\* netlist lines as the parser returns them
NetlistLines ==
    { NetlistComponent("V1", "VDC", <<"IN", "0">>),
      NetlistComponent("R1", "R", <<"IN", "OUT">>),
      NetlistComponent("R2", "R", <<"OUT", "gnd">>),
      NetlistComponent("C1", "C", <<"OUT", "0">>),
      NetlistComponent("L1", "L", <<"IN", "OUT">>),
      NetlistComponent("D1", "D", <<"OUT", "0">>),
      NetlistComponent("GND", "GND", <<"0">>),
      NetlistComponent("Q1", "NPN_BJT", <<"OUT", "IN", "0">>) }

Injective(f) == \A i, j \in DOMAIN f : i # j => f[i] # f[j]

ParsedNetlists ==
    UNION {{lines \in [1..n -> NetlistLines] : Injective(lines)} : n \in 0..MaxNetlist}

Orders(n) == {order \in [1..n -> 1..n] : Injective(order)}

Reordered(comps, order) == [i \in DOMAIN comps |-> comps[order[i]]]

InitTemplate ==
    /\ RouterIdle /\ SimplifyIdle /\ RotateIdle /\ TopologyIdle /\ PlacerIdle /\ PinsIdle
    /\ t_components \in ParsedNetlists
    /\ t_library \in Libraries
    /\ t_topology = NotRun
    /\ t_other = NoOther
    /\ t_placed = <<>>
    /\ t_pc = "detect"

otherVarsOfTemplate == <<routerVars, simplifyVars, rotateVars, topologyVars, placerVars, pinsVars>>

\* main, step 2: detector.detect_topology()
TemplateDetect ==
    /\ t_pc = "detect"
    /\ t_topology' = template_detect(t_components, build_nets(t_components))
    /\ t_pc' = "place"
    /\ UNCHANGED <<t_components, t_library, t_other, t_placed, otherVarsOfTemplate>>

\* the same netlist declared in another order, parsed and classified
TemplateDetectOther ==
    /\ t_other = NoOther
    /\ \E order \in Orders(Len(t_components)) :
          LET comps == Reordered(t_components, order)
          IN  t_other' = [components |-> comps,
                          topology |-> template_detect(comps, build_nets(comps))]
    /\ UNCHANGED <<t_components, t_library, t_topology, t_placed, t_pc, otherVarsOfTemplate>>

\* main, step 3: placer.place(circuit, topology); a KeyError is not caught
TemplatePlace ==
    /\ t_pc = "place"
    /\ LET result == template_place(t_components, t_library, t_topology)
       IN  IF result.raised
           THEN t_pc' = KeyError /\ UNCHANGED t_placed
           ELSE t_pc' = "placed" /\ t_placed' = result.placed
    /\ UNCHANGED <<t_components, t_library, t_topology, t_other, otherVarsOfTemplate>>

NextTemplate == TemplateDetect \/ TemplateDetectOther \/ TemplatePlace

SpecTemplate == InitTemplate /\ [][NextTemplate]_vars

(***************************************************************************)
(* TextbookCircuitPlacer.place_circuit of circuit_placer_textbook.py and   *)
(* of circuit_placer_textbook_fixed.py: classify, place, resolve the pins, *)
(* route.  The circuit is the Circuit of netlist_parser.py (src_redesign): *)
(* components with node1 and node2, nets keyed by node name.               *)
(***************************************************************************)
COMPONENT_SPACING_H == 250
COMPONENT_SPACING_V == 200
RAIL_HEIGHT == 150

PlacedComponent(comp, x, y) ==
    [reference |-> comp.reference, comp_type |-> comp.comp_type,
     x |-> x, y |-> y, rotation |-> 0, pin_positions |-> <<>>]

source_types(version) ==
    IF version = "fixed" THEN {"VDC", "VAC", "V"} ELSE {"VDC", "VAC"}

sources_of(comps, version) ==
    LET Is(c) == c.comp_type \in source_types(version) IN SelectSeq(comps, Is)

passives_of(comps, version) ==
    LET Is(c) == c.comp_type \notin (source_types(version) \cup {"GND"})
    IN  SelectSeq(comps, Is)

grounds_of(comps) ==
    LET Is(c) == c.comp_type = "GND" IN SelectSeq(comps, Is)

\* the for loop of _build_series_chain: the first component of remaining,
\* in the iteration order of the set, that touches current_node (0 if none)
first_connected(passives, remaining, current_node) ==
    LET Touches(k) == current_node \in {passives[remaining[k]].node1,
                                        passives[remaining[k]].node2}
        hits == {k \in DOMAIN remaining : Touches(k)}
    IN  IF hits = {} THEN 0
        ELSE remaining[CHOOSE k \in hits : \A j \in hits : k <= j]

\* the while loop of _build_series_chain; remaining is the set of passives
\* still to place, listed in the iteration order of the set
RECURSIVE chain_loop(_, _, _, _)
chain_loop(passives, remaining, current_node, chain) ==
    IF remaining = <<>> THEN chain
    ELSE LET found == first_connected(passives, remaining, current_node)
         IN  IF found = 0 THEN chain \o remaining
             ELSE LET comp == passives[found]
                      IsLeft(i) == i # found
                  IN  chain_loop(passives, SelectSeq(remaining, IsLeft),
                                 IF comp.node1 = current_node THEN comp.node2
                                 ELSE comp.node1,
                                 Append(chain, found))

\* _build_series_chain, with the iteration order of set(passives) given as
\* a list of the positions of the passives
build_series_chain(source, passives, set_order) ==
    LET chain == chain_loop(passives, set_order, source.node2, <<>>)
    IN  [i \in DOMAIN chain |-> passives[chain[i]]]

\* the part of _place_series before the chain is built
series_source(comps, version) ==
    LET sources == sources_of(comps, version)
    IN  IF sources = <<>> THEN <<>>
        ELSE << PlacedComponent(sources[1], 0, RAIL_HEIGHT) >>

\* _place_series when set(passives) can be built
place_series(comps, version, set_order) ==
    LET sources  == sources_of(comps, version)
        passives == passives_of(comps, version)
        grounds  == grounds_of(comps)
        chain    == IF sources # <<>> /\ passives # <<>>
                    THEN build_series_chain(sources[1], passives, set_order)
                    ELSE <<>>
        x_end    == IF sources # <<>> /\ passives # <<>>
                    THEN (Len(chain) + 1) * COMPONENT_SPACING_H ELSE 0
    IN  series_source(comps, version)
        \o [i \in DOMAIN chain |->
               PlacedComponent(chain[i], i * COMPONENT_SPACING_H, RAIL_HEIGHT)]
        \o (IF version = "fixed" \/ grounds = <<>> THEN <<>>
            ELSE << PlacedComponent(grounds[1], x_end - COMPONENT_SPACING_H,
                                    RAIL_HEIGHT + COMPONENT_SPACING_V) >>)

\* _place_parallel
place_parallel(comps, version) ==
    LET sources    == sources_of(comps, version)
        passives   == passives_of(comps, version)
        grounds    == grounds_of(comps)
        x_passives == COMPONENT_SPACING_H * 2
        y_start    == RAIL_HEIGHT
    IN  (IF sources = <<>> THEN <<>> ELSE << PlacedComponent(sources[1], 0, y_start) >>)
        \o [j \in DOMAIN passives |->
               PlacedComponent(passives[j], x_passives,
                               y_start + (j - 1) * COMPONENT_SPACING_V)]
        \o (IF version = "fixed" \/ grounds = <<>> THEN <<>>
            ELSE << PlacedComponent(grounds[1], x_passives + COMPONENT_SPACING_H,
                        y_start + ((Len(passives) - 1) * COMPONENT_SPACING_V) \div 2) >>)

\* _place_generic_grid
RECURSIVE generic_loop(_, _, _, _)
generic_loop(comps, x, y, placed) ==
    IF comps = <<>> THEN placed
    ELSE LET next_x == x + COMPONENT_SPACING_H
             wrap == next_x > COMPONENT_SPACING_H * 4
         IN  generic_loop(Tail(comps),
                          IF wrap THEN 0 ELSE next_x,
                          IF wrap THEN y + COMPONENT_SPACING_V ELSE y,
                          Append(placed, PlacedComponent(Head(comps), x, y)))

place_generic_grid(comps) == generic_loop(comps, 0, 0, <<>>)

\* the rotation branch of _calculate_all_pin_positions with the 270-degree
\* case turning the wrong way
rotate_offset_wrong(dx, dy, rotation) ==
    IF rotation = 90 THEN <<-dy, dx>>
    ELSE IF rotation = 180 THEN <<-dx, -dy>>
    ELSE IF rotation = 270 THEN <<-dy, dx>>
    ELSE <<dx, dy>>

\* the rotation branch of _calculate_all_pin_positions
rotate_offset(dx, dy, rotation) ==
    IF rotation = 90 THEN <<-dy, dx>>
    ELSE IF rotation = 180 THEN <<-dx, -dy>>
    ELSE IF rotation = 270 THEN <<dy, -dx>>
    ELSE <<dx, dy>>

\* the loop body of _calculate_all_pin_positions giving a component of
\* unknown type one pin at its anchor in place of skipping it
calculate_pin_positions_anchor_pin(placed, library) ==
    IF placed.comp_type \notin DOMAIN library
    THEN [placed EXCEPT !.pin_positions = << <<placed.x, placed.y>> >>]
    ELSE LET lib_pins == library[placed.comp_type]
         IN  [placed EXCEPT !.pin_positions =
                [k \in DOMAIN lib_pins |->
                    LET rotated == rotate_offset(lib_pins[k][1], lib_pins[k][2],
                                                 placed.rotation)
                    IN  <<placed.x + rotated[1], placed.y + rotated[2]>>]]

\* the body of the loop of _calculate_all_pin_positions for one component
calculate_pin_positions(placed, library) ==
    IF placed.comp_type \notin DOMAIN library THEN placed
    ELSE LET lib_pins == library[placed.comp_type]
         IN  [placed EXCEPT !.pin_positions =
                [k \in DOMAIN lib_pins |->
                    LET rotated == rotate_offset(lib_pins[k][1], lib_pins[k][2],
                                                 placed.rotation)
                    IN  <<placed.x + rotated[1], placed.y + rotated[2]>>]]

calculate_all_pin_positions(placed_components, library) ==
    [i \in DOMAIN placed_components |->
        calculate_pin_positions(placed_components[i], library)]

\* NetlistParser._build_nets of netlist_parser.py: the dict circuit.nets
\* in insertion order, pins as <<reference, pin number>>
node_terminals(comps) ==
    [t \in 1..(2 * Len(comps)) |->
        LET comp == comps[(t + 1) \div 2]
        IN  IF t % 2 = 1 THEN <<comp.reference, 1, comp.node1>>
            ELSE <<comp.reference, 2, comp.node2>>]

circuit_nets(comps) ==
    LET terms == node_terminals(comps)
        names == net_names(terms, <<>>)
        OnNet(name) == LET Touches(t) == t[3] = name IN SelectSeq(terms, Touches)
    IN  [n \in DOMAIN names |->
            [name |-> names[n],
             pins |-> [k \in DOMAIN OnNet(names[n]) |->
                          <<OnNet(names[n])[k][1], OnNet(names[n])[k][2]>>]]]

\* _find_placed: position of the first placed component with the reference, 0 if none
find_placed(placed_components, reference) ==
    LET hits == {i \in DOMAIN placed_components :
                    placed_components[i].reference = reference}
    IN  IF hits = {} THEN 0 ELSE CHOOSE i \in hits : \A j \in hits : i <= j

\* _remove_duplicates
RECURSIVE remove_duplicates_loop(_, _)
remove_duplicates_loop(points, result) ==
    IF points = <<>> THEN result
    ELSE remove_duplicates_loop(Tail(points),
            IF Head(points) # result[Len(result)] THEN Append(result, Head(points))
            ELSE result)

remove_duplicates(points) ==
    IF points = <<>> THEN <<>>
    ELSE remove_duplicates_loop(Tail(points), <<points[1]>>)

\* _route_orthogonal / _route_simple
RECURSIVE route_loop(_, _, _)
route_loop(pin_list, i, waypoints) ==
    IF i > Len(pin_list) - 1 THEN waypoints
    ELSE LET p1 == pin_list[i]
             p2 == pin_list[i + 1]
             first == IF i = 1 THEN <<p1>> ELSE <<>>
             corner == IF Abs(p2[1] - p1[1]) > Abs(p2[2] - p1[2])
                       THEN <<p2[1], p1[2]>> ELSE <<p1[1], p2[2]>>
         IN  route_loop(pin_list, i + 1, waypoints \o first \o <<corner, p2>>)

route_orthogonal(pin_list) == remove_duplicates(route_loop(pin_list, 1, <<>>))

\* the pin positions _route_all_wires collects for one net; the textbook
\* version reads pin_positions[pin_num - 1], the fixed one pin_positions[pin_idx]
net_pin_positions(net, placed_components, version) ==
    LET shift == IF version = "fixed" THEN 1 ELSE 0
        Found(pin) ==
            LET at == find_placed(placed_components, pin[1])
            IN  at # 0 /\ pin[2] + shift <= Len(placed_components[at].pin_positions)
        usable == SelectSeq(net.pins, Found)
    IN  [k \in DOMAIN usable |->
            placed_components[find_placed(placed_components, usable[k][1])]
                .pin_positions[usable[k][2] + shift]]

RECURSIVE route_nets_loop(_, _, _, _)
route_nets_loop(netlist, placed_components, version, wires) ==
    IF netlist = <<>> THEN wires
    ELSE LET net == Head(netlist)
             pin_list == net_pin_positions(net, placed_components, version)
         IN  route_nets_loop(Tail(netlist), placed_components, version,
                IF Len(net.pins) < 2 \/ Len(pin_list) < 2 THEN wires
                ELSE Append(wires, [net_name |-> net.name,
                                    waypoints |-> route_orthogonal(pin_list)]))

route_all_wires(comps, placed_components, version) ==
    route_nets_loop(circuit_nets(comps), placed_components, version, <<>>)

MaxPlaced == 4

\* netlist lines as the parser returns them
PlacerLines ==
    { Component("V1", "VDC", "VIN", "GND"),
      Component("V2", "VDC", "GND", "VIN"),
      Component("R1", "R", "VIN", "VOUT"),
      Component("R2", "R", "VIN", "VOUT"),
      Component("R3", "R", "VOUT", "GND"),
      Component("R4", "R", "VIN", "GND"),
      Component("C1", "C", "VIN", "GND"),
      Component("G1", "GND", "GND", "GND") }

PlacerCircuits ==
    UNION {{lines \in [1..n -> PlacerLines] : Injective(lines)} : n \in 0..MaxPlaced}

\* pin offsets (dx, dy) per type; the type C has no entry
TextbookLibrary ==
    [type \in {"VDC", "R", "GND"} |->
        CASE type = "VDC" -> << <<0, -40>>, <<0, 40>> >>
          [] type = "GND" -> << <<0, -10>> >>
          [] OTHER        -> << <<-40, 0>>, <<40, 0>> >>]

TypeError == "TypeError"

\* variant: components that hash, so that set(passives) is built and iterated
\* in an order the caller does not control
PlacementOutcomes_set_order(comps, version, hashable, tag) ==
    IF tag = "SERIES" THEN
        IF sources_of(comps, version) # <<>> /\ passives_of(comps, version) # <<>>
        THEN {[raised |-> FALSE, placed |-> place_series(comps, version, set_order)] :
                 set_order \in Orders(Len(passives_of(comps, version)))}
        ELSE {[raised |-> FALSE, placed |-> place_series(comps, version, <<>>)]}
    ELSE IF tag = "PARALLEL"
        THEN {[raised |-> FALSE, placed |-> place_parallel(comps, version)]}
    ELSE {[raised |-> FALSE, placed |-> place_generic_grid(comps)]}

\* what the placement step of place_circuit leaves in placed_components:
\* set(passives) raises TypeError for components that are not hashable (the
\* dataclasses of the parsers), after the source has been placed; for
\* hashable components the set is iterated in an order the caller does
\* not control
PlacementOutcomes(comps, version, hashable, tag) ==
    IF tag = "SERIES" THEN
        IF sources_of(comps, version) # <<>> /\ passives_of(comps, version) # <<>>
        THEN IF hashable
             THEN {[raised |-> FALSE, placed |-> place_series(comps, version, set_order)] :
                      set_order \in Orders(Len(passives_of(comps, version)))}
             ELSE {[raised |-> TRUE, placed |-> series_source(comps, version)]}
        ELSE {[raised |-> FALSE, placed |-> place_series(comps, version, <<>>)]}
    ELSE IF tag = "PARALLEL"
        THEN {[raised |-> FALSE, placed |-> place_parallel(comps, version)]}
    ELSE {[raised |-> FALSE, placed |-> place_generic_grid(comps)]}

InitPlacer ==
    /\ RouterIdle /\ SimplifyIdle /\ RotateIdle /\ TopologyIdle /\ TemplateIdle /\ PinsIdle
    /\ p_circuit \in PlacerCircuits
    /\ p_version \in {"textbook", "fixed"}
    \* the component classes of the parsers are dataclasses with eq and no hash
    /\ p_hashable = FALSE
    /\ p_library = TextbookLibrary
    /\ p_topology = NotRun
    /\ p_placed = <<>>
    /\ p_rerun = NoRerun
    /\ p_wires = <<>>
    /\ p_pc = "detect"

otherVarsOfPlacer == <<routerVars, simplifyVars, rotateVars, topologyVars, templateVars, pinsVars>>
placerInputs == <<p_circuit, p_version, p_hashable, p_library>>

\* place_circuit: topology = self._detect_topology()
PlacerDetect ==
    /\ p_pc = "detect"
    /\ p_topology' = IF p_version = "fixed" THEN detect_topology_fixed(p_circuit)
                     ELSE detect_topology(p_circuit)
    /\ p_pc' = "place"
    /\ UNCHANGED <<placerInputs, p_placed, p_rerun, p_wires, otherVarsOfPlacer>>

\* place_circuit: _place_series / _place_parallel / _place_generic_grid
PlacerPlace ==
    /\ p_pc = "place"
    /\ \E outcome \in PlacementOutcomes(p_circuit, p_version, p_hashable, p_topology) :
          /\ p_placed' = outcome.placed
          /\ p_pc' = IF outcome.raised THEN TypeError ELSE "pins"
    /\ UNCHANGED <<placerInputs, p_topology, p_rerun, p_wires, otherVarsOfPlacer>>

\* place_circuit: self._calculate_all_pin_positions()
PlacerPins ==
    /\ p_pc = "pins"
    /\ p_placed' = calculate_all_pin_positions(p_placed, p_library)
    /\ p_pc' = "route"
    /\ UNCHANGED <<placerInputs, p_topology, p_rerun, p_wires, otherVarsOfPlacer>>

\* place_circuit: self._route_all_wires(); return
PlacerRoute ==
    /\ p_pc = "route"
    /\ p_wires' = route_all_wires(p_circuit, p_placed, p_version)
    /\ p_pc' = "done"
    /\ UNCHANGED <<placerInputs, p_topology, p_placed, p_rerun, otherVarsOfPlacer>>

\* a second run of the placement on the same circuit, tag and constants
PlacerRerun ==
    /\ p_pc \in {"done", TypeError}
    /\ ~p_rerun.ran
    /\ \E outcome \in PlacementOutcomes(p_circuit, p_version, p_hashable, p_topology) :
          p_rerun' = [ran |-> TRUE, raised |-> outcome.raised, placed |-> outcome.placed]
    /\ UNCHANGED <<placerInputs, p_topology, p_placed, p_wires, p_pc, otherVarsOfPlacer>>

NextPlacer == PlacerDetect \/ PlacerPlace \/ PlacerPins \/ PlacerRoute \/ PlacerRerun

SpecPlacer == InitPlacer /\ [][NextPlacer]_vars

(***************************************************************************)
(* Pin resolution alone: one placed component with any anchor, rotation    *)
(* and library pins, resolved by _calculate_all_pin_positions of           *)
(* circuit_placer_textbook.py and by _calculate_pin_positions of           *)
(* circuit_placer.py.                                                      *)
(***************************************************************************)
\* _calculate_pin_positions of circuit_placer.py; pins holds (pin['x'], pin['y'])
calculate_pin_positions_blocked(pin_list, x, y, rotation) ==
    [k \in DOMAIN pin_list |->
        LET px == pin_list[k][1]
            py == pin_list[k][2]
        IN  IF rotation = 90 THEN <<-py + x, px + y>>
            ELSE IF rotation = 180 THEN <<-px + x, -py + y>>
            ELSE IF rotation = 270 THEN <<py + x, -px + y>>
            ELSE <<px + x, py + y>>]

MaxAnchor == 1
MaxPinOffset == 2
MaxPins == 2

PinOffsets == ((-MaxPinOffset)..MaxPinOffset) \X ((-MaxPinOffset)..MaxPinOffset)

InitPins ==
    /\ RouterIdle /\ SimplifyIdle /\ RotateIdle /\ TopologyIdle /\ TemplateIdle /\ PlacerIdle
    /\ \E x, y \in 0..MaxAnchor, rotation \in {0, 90, 180, 270} :
          pr_placed = [reference |-> "R1", comp_type |-> "R", x |-> x, y |-> y,
                       rotation |-> rotation, pin_positions |-> <<>>]
    /\ pr_offsets \in UNION {[1..n -> PinOffsets] : n \in 1..MaxPins}
    /\ pr_positions = <<>>

otherVarsOfPins == <<routerVars, simplifyVars, rotateVars, topologyVars, templateVars, placerVars>>

\* TextbookCircuitPlacer._calculate_all_pin_positions on the one component
PinsTextbook ==
    /\ pr_placed # NoPlaced
    /\ pr_placed.pin_positions = <<>>
    /\ pr_placed' = calculate_pin_positions(pr_placed, (pr_placed.comp_type :> pr_offsets))
    /\ UNCHANGED <<pr_offsets, pr_positions, otherVarsOfPins>>

\* CircuitPlacer._calculate_pin_positions(pins, x, y, rotation)
PinsBlocked ==
    /\ pr_placed # NoPlaced
    /\ pr_positions = <<>>
    /\ pr_positions' = calculate_pin_positions_blocked(pr_offsets, pr_placed.x,
                                                       pr_placed.y, pr_placed.rotation)
    /\ UNCHANGED <<pr_placed, pr_offsets, otherVarsOfPins>>

NextPins == PinsTextbook \/ PinsBlocked

SpecPins == InitPins /\ [][NextPins]_vars

(***************************************************************************)
(* route_net for one 2-pin net on a router whose obstacle set is empty     *)
(* (set_obstacles_from_components has not been called): the pins lie on    *)
(* and off the grid lines, at positive and negative coordinates.           *)
(***************************************************************************)
MaxPinCell == 2

\* pixel coordinates half a cell apart
PinCoords == {(GRID_SIZE \div 2) * i : i \in (-2 * MaxPinCell)..(2 * MaxPinCell)}

PinOnly(ref, position) ==
    [reference |-> ref, position |-> position, size |-> <<0, 0>>,
     pins |-> << [id |-> "1", position |-> position] >>]

InitTwoPins ==
    /\ SimplifyIdle /\ RotateIdle /\ TopologyIdle /\ LayoutIdle
    /\ \E p1, p2 \in PinCoords \X PinCoords :
          components = << PinOnly("J1", p1), PinOnly("J2", p2) >>
    /\ nets = NetJ1J2
    /\ routed_wires = <<>>
    /\ obstacles = {}
    /\ wire_segments = <<>>
    /\ pc = "idle"
    /\ pins = <<>>
    /\ mst_edges = <<>>
    /\ all_paths = <<>>
    /\ start = <<0, 0>>
    /\ goal = <<0, 0>>
    /\ open_set = <<>>
    /\ closed_set = {}
    /\ g_scores = <<>>
    /\ came_from = <<>>
    /\ grid_path = <<>>
    /\ in_flight = <<>>

NextTwoPins == RouteNet \/ AStarIter \/ EdgeRouted

SpecTwoPins == InitTwoPins /\ [][NextTwoPins]_vars

(***************************************************************************)
(* Several route_net calls running beside each other on one router, as     *)
(* threads would run them: each call has its own locals (the pin list, the *)
(* MST edges, the paths and the locals of _astar), the router's obstacles  *)
(* and wire_segments are shared.  A call begins at any time, its search    *)
(* advances a few loop iterations at a time, it appends its segments to    *)
(* wire_segments one by one, and the calls interleave in every way; main's *)
(* loop, one call after the other in any order, is among the               *)
(* interleavings.                                                          *)
(***************************************************************************)
StepChunk == 4

\* the locals of _astar(st, gl) before the first pass of its loop
search_locals(st, gl) ==
    IF st = gl
    THEN [open_set |-> <<>>, closed_set |-> {}, g_scores |-> <<>>,
          came_from |-> <<>>, grid_path |-> <<st>>]
    ELSE [open_set   |-> heappush(<<>>, Node(heuristic(st, gl), st, 0, NoParent)),
          closed_set |-> {},
          g_scores   |-> (st :> 0),
          came_from  |-> <<>>,
          grid_path  |-> <<>>]

\* the locals of a route_net call that searches its first edge; path is the
\* routed path once all edges are searched, i the index of the loop of
\* lines 101-105 over its segments
call_locals(ps, es) ==
    [pins |-> ps, mst_edges |-> es, all_paths |-> <<>>,
     start |-> to_grid(ps[es[1][1]]), goal |-> to_grid(ps[es[1][2]]),
     search |-> search_locals(to_grid(ps[es[1][1]]), to_grid(ps[es[1][2]])),
     path |-> <<>>, i |-> 0]

\* the layouts of main's input with C1 off the grid, right of and below V1
InterleaveLayouts ==
    {<<Placed("V1", <<0, 0>>, <<0, 0>>), Placed("R1", a, sz),
       Placed("C1", <<3 * GRID_SIZE + 5, GRID_SIZE + 5>>, <<0, 0>>)>> :
        a \in Anchors, sz \in BodySizes}

CallReturned(k) == \E w \in DOMAIN routed_wires : routed_wires[w].net_name = nets[k].name

InitInterleave ==
    /\ SimplifyIdle /\ RotateIdle /\ TopologyIdle /\ LayoutIdle
    /\ components \in InterleaveLayouts
    /\ nets \in Netlists
    /\ routed_wires = <<>>
    /\ obstacles = {}
    /\ wire_segments = <<>>
    /\ pc = "load"
    /\ pins = <<>>
    /\ mst_edges = <<>>
    /\ all_paths = <<>>
    /\ start = <<0, 0>>
    /\ goal = <<0, 0>>
    /\ open_set = <<>>
    /\ closed_set = {}
    /\ g_scores = <<>>
    /\ came_from = <<>>
    /\ grid_path = <<>>
    /\ in_flight = <<>>

\* route_net(nets[k], components) is called: lines 70-98 up to the first search
CallBegin(k) ==
    /\ pc = "idle"
    /\ k \notin DOMAIN in_flight
    /\ ~CallReturned(k)
    /\ LET ps == pin_positions(nets[k], components)
       IN  IF Len(ps) < 2
           THEN /\ routed_wires' = Append(routed_wires, Wire(nets[k].name, <<>>))
                /\ UNCHANGED in_flight
           ELSE /\ in_flight' = (k :> call_locals(ps, edges_to_route(ps))) @@ in_flight
                /\ UNCHANGED routed_wires
    /\ UNCHANGED <<components, nets, obstacles, wire_segments, pc, callVars, astarVars>>
    /\ UNCHANGED <<simplifyVars, rotateVars, topologyVars, layoutVars>>

\* variant: one closed set for all the calls in flight
CallSearch_shared(k) ==
    /\ k \in DOMAIN in_flight
    /\ in_flight[k].search.grid_path = <<>>
    /\ in_flight' = [in_flight EXCEPT ![k].search =
                        astar_loop(obstacles, in_flight[k].start, in_flight[k].goal,
                                   [in_flight[k].search EXCEPT !.closed_set =
                                       UNION {in_flight[j].search.closed_set :
                                                 j \in DOMAIN in_flight}],
                                   StepChunk)]
    /\ UNCHANGED <<mainVars, obstacles, wire_segments, pc, callVars, astarVars>>
    /\ UNCHANGED <<simplifyVars, rotateVars, topologyVars, layoutVars>>

\* the search of call k advances by at most StepChunk iterations of its loop
CallSearch(k) ==
    /\ k \in DOMAIN in_flight
    /\ in_flight[k].search.grid_path = <<>>
    /\ in_flight' = [in_flight EXCEPT ![k].search =
                        astar_loop(obstacles, in_flight[k].start, in_flight[k].goal,
                                   in_flight[k].search, StepChunk)]
    /\ UNCHANGED <<mainVars, obstacles, wire_segments, pc, callVars, astarVars>>
    /\ UNCHANGED <<simplifyVars, rotateVars, topologyVars, layoutVars>>

\* a search of call k returned: either the next MST edge is searched, or the
\* call has its path (lines 93-98) and enters the loop over its segments
CallEdgeRouted(k) ==
    /\ k \in DOMAIN in_flight
    /\ in_flight[k].path = <<>>
    /\ in_flight[k].search.grid_path # <<>>
    /\ LET call  == in_flight[k]
           e     == call.mst_edges[1]
           path  == pixel_path(call.pins[e[1]], call.pins[e[2]], call.search.grid_path)
           paths == call.all_paths \o path
           rest  == Tail(call.mst_edges)
       IN  IF rest # <<>>
           THEN in_flight' =
                    [in_flight EXCEPT ![k] =
                        [call_locals(call.pins, rest) EXCEPT !.all_paths = paths]]
           ELSE in_flight' =
                    [in_flight EXCEPT ![k].all_paths = paths,
                                      ![k].mst_edges = rest,
                                      ![k].path = IF Len(call.pins) = 2 THEN path
                                                  ELSE merge_paths(paths)]
    /\ UNCHANGED <<mainVars, obstacles, wire_segments, pc, callVars, astarVars>>
    /\ UNCHANGED <<simplifyVars, rotateVars, topologyVars, layoutVars>>

\* one pass of the loop of lines 101-105: call k appends its next segment to
\* the router's wire_segments
CallRecordSegment(k) ==
    /\ k \in DOMAIN in_flight
    /\ in_flight[k].path # <<>>
    /\ in_flight[k].i < Len(in_flight[k].path) - 1
    /\ wire_segments' = Append(wire_segments,
                                path_segments(in_flight[k].path)[in_flight[k].i + 1])
    /\ in_flight' = [in_flight EXCEPT ![k].i = @ + 1]
    /\ UNCHANGED <<mainVars, obstacles, pc, callVars, astarVars>>
    /\ UNCHANGED <<simplifyVars, rotateVars, topologyVars, layoutVars>>

\* the loop of call k is over: route_net returns its Wire (line 107) and the
\* caller appends it to its list (main, line 359)
CallReturn(k) ==
    /\ k \in DOMAIN in_flight
    /\ in_flight[k].path # <<>>
    /\ in_flight[k].i = Len(in_flight[k].path) - 1
    /\ routed_wires' = Append(routed_wires, Wire(nets[k].name, in_flight[k].path))
    /\ in_flight' = [j \in DOMAIN in_flight \ {k} |-> in_flight[j]]
    /\ UNCHANGED <<components, nets, obstacles, wire_segments, pc, callVars, astarVars>>
    /\ UNCHANGED <<simplifyVars, rotateVars, topologyVars, layoutVars>>

NextInterleave ==
    \/ SetObstacles
    \/ \E k \in DOMAIN nets :
          \/ CallBegin(k) \/ CallSearch(k) \/ CallEdgeRouted(k)
          \/ CallRecordSegment(k) \/ CallReturn(k)

SpecInterleave == InitInterleave /\ [][NextInterleave]_vars

(***************************************************************************)
(* route_net as a function of the net, the components and the obstacle set *)
(* of a router on which nothing has been routed yet.                       *)
(***************************************************************************)
\* the while loop of _astar run to its return
RECURSIVE astar_run(_, _, _, _)
astar_run(obs, st, gl, s) ==
    IF s.grid_path # <<>> THEN s.grid_path
    ELSE astar_run(obs, st, gl, astar_loop(obs, st, gl, s, SearchChunk))

\* _astar
astar(obs, st, gl) ==
    IF st = gl THEN <<st>>
    ELSE astar_run(obs, st, gl,
                   [open_set   |-> heappush(<<>>, Node(heuristic(st, gl), st, 0, NoParent)),
                    closed_set |-> {},
                    g_scores   |-> (st :> 0),
                    came_from  |-> <<>>,
                    grid_path  |-> <<>>])

\* _route_two_pins
route_two_pins(obs, s, e) == pixel_path(s, e, astar(obs, to_grid(s), to_grid(e)))

\* the loop of _route_multi_pins over the MST edges
RECURSIVE route_edges(_, _, _, _)
route_edges(obs, ps, edges, paths) ==
    IF edges = <<>> THEN paths
    ELSE route_edges(obs, ps, Tail(edges),
                     paths \o route_two_pins(obs, ps[edges[1][1]], ps[edges[1][2]]))

\* route_net
route_net(net, comps, obs) ==
    LET ps == pin_positions(net, comps)
    IN  IF Len(ps) < 2 THEN Wire(net.name, <<>>)
        ELSE IF Len(ps) = 2 THEN Wire(net.name, route_two_pins(obs, ps[1], ps[2]))
        ELSE Wire(net.name, merge_paths(route_edges(obs, ps, build_mst(ps), <<>>)))

(***************************************************************************)
(* Reference notions the claims are stated with.                           *)
(***************************************************************************)
Manhattan(a, b) == Abs(a[1] - b[1]) + Abs(a[2] - b[2])

Min2(a, b) == IF a < b THEN a ELSE b
Max2(a, b) == IF a > b THEN a ELSE b

\* cells of the rectangle spanned by two cells
BBox(a, b) ==
    (Min2(a[1], b[1])..Max2(a[1], b[1])) \X (Min2(a[2], b[2])..Max2(a[2], b[2]))

\* cost of a path under the declared cost model, in half units
RECURSIVE PathCostFrom(_, _, _)
PathCostFrom(obs, path, i) ==
    IF i > Len(path) THEN 0
    ELSE MOVE_COST
         + (IF path[i] \in obs THEN OBSTACLE_PENALTY ELSE 0)
         + (IF i >= 3 /\ is_direction_change(path[i-2], path[i-1], path[i])
            THEN TURN_PENALTY ELSE 0)
         + PathCostFrom(obs, path, i + 1)

PathCost(obs, path) == PathCostFrom(obs, path, 2)

\* Cheapest cost of a 4-connected path from s to g that stays inside the
\* window one cell larger than the input window, by relaxation to a fixed
\* point over (cell, direction of the last move); direction 0 is "no move
\* yet".  d maps a state to {} (not reached) or to {its cheapest cost}.
Window == (-1..(MaxCoord + 1)) \X (-1..(MaxCoord + 1))
OptStates == Window \X (0..4)
OptPrev(c, k) == LET n == get_neighbors(c)[k] IN <<2 * c[1] - n[1], 2 * c[2] - n[2]>>

OptCandidates(obs, d, c, k) ==
    IF k = 0 \/ OptPrev(c, k) \notin Window THEN {}
    ELSE UNION {{v + MOVE_COST
                   + (IF c \in obs THEN OBSTACLE_PENALTY ELSE 0)
                   + (IF pk # 0 /\ pk # k THEN TURN_PENALTY ELSE 0) :
                 v \in d[<<OptPrev(c, k), pk>>]} : pk \in 0..4}

SetMin(S) == CHOOSE m \in S : \A n \in S : m <= n

OptRound(obs, d) ==
    [st \in OptStates |->
        LET cands == OptCandidates(obs, d, st[1], st[2]) \cup d[st]
        IN  IF cands = {} THEN {} ELSE {SetMin(cands)}]

RECURSIVE OptFix(_, _)
OptFix(obs, d) ==
    LET e == OptRound(obs, d) IN IF e = d THEN d ELSE OptFix(obs, e)

OptimalCost(obs, s, g) ==
    LET d0 == [st \in OptStates |-> IF st = <<s, 0>> THEN {0} ELSE {}]
        d  == OptFix(obs, d0)
    IN  SetMin(UNION {d[<<g, k>>] : k \in 0..4})


(***************************************************************************)
(* Wire invariants of the data model.                                      *)
(***************************************************************************)
\* consecutive waypoints differ in exactly one axis (so they are not equal)
ManhattanSegments(path) ==
    \A i \in 1..(Len(path) - 1) :
        (path[i][1] = path[i + 1][1]) # (path[i][2] = path[i + 1][2])

NoCollinearTriple(path) ==
    \A i \in 1..(Len(path) - 2) :
        ~( \/ (path[i][1] = path[i + 1][1] /\ path[i + 1][1] = path[i + 2][1])
           \/ (path[i][2] = path[i + 1][2] /\ path[i + 1][2] = path[i + 2][2]) )

WireInvariants(path) == ManhattanSegments(path) /\ NoCollinearTriple(path)

\* number of resolvable pins of the k-th net of the netlist
Resolvable(k) == Len(pin_positions(nets[k], components))

Range(f) == {f[i] : i \in DOMAIN f}

(***************************************************************************)
(* C1: the Wire route_net returns for a net with exactly two resolvable    *)
(* pins satisfies the Wire invariants: consecutive waypoints differ in     *)
(* exactly one axis, none are equal, no three in a row are collinear.      *)
(***************************************************************************)
C1_TwoPinWireInvariants ==
    \A k \in 1..Len(routed_wires) :
        Resolvable(k) = 2 => WireInvariants(routed_wires[k].path)

\* a routed 2-pin wire with at least two turns, in a circuit with a wall
C1_Witness ==
    \E k \in 1..Len(routed_wires) :
        /\ Resolvable(k) = 2
        /\ Len(routed_wires[k].path) >= 4
        /\ Cardinality(obstacles) > Len(components)

(***************************************************************************)
(* C2: the Wire route_net returns for a net with three or more resolvable  *)
(* pins satisfies the Wire invariants: consecutive waypoints differ in     *)
(* exactly one axis and no three in a row are collinear.                   *)
(***************************************************************************)
C2_MultiPinWireInvariants ==
    \A k \in 1..Len(routed_wires) :
        Resolvable(k) >= 3 => WireInvariants(routed_wires[k].path)

(***************************************************************************)
(* C5: when the rasterized boxes of two components block the straight line *)
(* between the two pins of a net, the routed path is a detour: longer than *)
(* the straight segment, and it traverses no blocked cell.                 *)
(***************************************************************************)
\* the cells strictly between two cells of one row or column
Between(a, b) == BBox(a, b) \ {a, b}

\* start and goal lie on one row or column, are not blocked themselves, and
\* every cell between them is blocked
LineBlocked ==
    /\ (start[1] = goal[1]) # (start[2] = goal[2])
    /\ start \notin obstacles /\ goal \notin obstacles
    /\ Between(start, goal) # {}
    /\ Between(start, goal) \subseteq obstacles

IsDetour(path) ==
    /\ Len(path) - 1 > Manhattan(start, goal)
    /\ Range(path) \cap obstacles = {}

SearchReturned == grid_path # <<>> /\ Len(components) = 4

FreeBox(obs, s, g) ==
    LET pts == obs \cup {s, g}
        xs  == {p[1] : p \in pts}
        ys  == {p[2] : p \in pts}
    IN  ((SetMin(xs) - 1)..(SetMin({-x : x \in xs}) * (-1) + 1))
            \X ((SetMin(ys) - 1)..(SetMin({-y : y \in ys}) * (-1) + 1))

RECURSIVE FreeSearch(_, _, _, _, _)
FreeSearch(free, g, seen, frontier, n) ==
    IF g \in frontier THEN n
    ELSE IF frontier = {} THEN 0
    ELSE LET next == {c \in free \ seen :
                        \E i \in 1..4 : get_neighbors(c)[i] \in frontier}
         IN  FreeSearch(free, g, seen \cup next, next, n + 1)

FreeDistance(obs, s, g) ==
    FreeSearch(FreeBox(obs, s, g) \ obs, g, {s}, {s}, 0)

\* the pairs <<cell, direction of arrival>> first reached at some cost,
\* given the pairs first reached 1 (a step ahead) and 1.5 (a step aside)
\* below it and the pairs reached so far; direction 0 marks the start
CostLevel(box, obs, seen, ahead_of, aside_of) ==
    LET Ahead(st) == IF st[2] = 0 THEN 1..4 ELSE {st[2]}
        Aside(st) == IF st[2] = 0 THEN {} ELSE (1..4) \ {st[2]}
        ahead == UNION {{<<get_neighbors(st[1])[k], k>> : k \in Ahead(st)} : st \in ahead_of}
        aside == UNION {{<<get_neighbors(st[1])[k], k>> : k \in Aside(st)} : st \in aside_of}
        moves == {st : st \in ahead \cup aside}
    IN  {st \in moves : st[1] \in box /\ st[1] \notin obs /\ st \notin seen}

Gathered(seen, level) == {st : st \in seen \cup level}

Arrived(g, level) == \E k \in 1..4 : <<g, k>> \in level

\* Cost, in half units, of a cheapest path from s to g over the free cells
\* of box, a step costing 1 and a change of direction after the first step
\* 0.5 more (limit when there is none below limit), by uniform-cost search
\* over the pairs <<cell, direction of arrival>>, four cost levels a pass.
\* at1, at2 and at3 are the pairs first reached at exactly cost - 1,
\* cost - 2 and cost - 3, seen the pairs reached so far.
RECURSIVE CheapestSearch(_, _, _, _, _, _, _, _, _)
CheapestSearch(box, obs, g, seen, at1, at2, at3, cost, limit) ==
    LET now0 == CostLevel(box, obs, seen, at2, at3)
        seen0 == Gathered(seen, now0)
        now1 == CostLevel(box, obs, seen0, at1, at2)
        seen1 == Gathered(seen0, now1)
        now2 == CostLevel(box, obs, seen1, now0, at1)
        seen2 == Gathered(seen1, now2)
        now3 == CostLevel(box, obs, seen2, now1, now0)
        seen3 == Gathered(seen2, now3)
    IN  IF cost >= limit THEN limit
        ELSE IF Arrived(g, now0) THEN cost
        ELSE IF cost + 1 >= limit THEN limit
        ELSE IF Arrived(g, now1) THEN cost + 1
        ELSE IF cost + 2 >= limit THEN limit
        ELSE IF Arrived(g, now2) THEN cost + 2
        ELSE IF cost + 3 >= limit THEN limit
        ELSE IF Arrived(g, now3) THEN cost + 3
        ELSE CheapestSearch(box, obs, g, seen3, now3, now2, now1, cost + 4, limit)

CheapestFreeCost(obs, s, g, limit) ==
    CheapestSearch(FreeBox(obs, s, g), obs, g, {<<s, 0>>}, {<<s, 0>>}, {}, {}, 1, limit)

\* the cost of the straight crossing of one blocked cell: d + 100; every
\* path that enters a blocked cell costs at least that
CrossingCost == MOVE_COST * Manhattan(start, goal) + OBSTACLE_PENALTY

\* some path around the blocked cells costs less than any crossing:
\* steps + 0.5 * turns < d + 100
DetourAffordable ==
    CheapestFreeCost(obstacles, start, goal, CrossingCost) < CrossingCost

RECURSIVE Reach(_, _)
Reach(E, S) ==
    LET T == S \cup {e[2] : e \in {d \in E : d[1] \in S}}
                \cup {e[1] : e \in {d \in E : d[2] \in S}}
    IN  IF T = S THEN S ELSE Reach(E, T)

Spans(k, E) == Reach(E, {1}) = 1..k

TreeWeight(ps, E) ==
    LET RECURSIVE Sum(_)
        Sum(S) == IF S = {} THEN 0
                  ELSE LET e == CHOOSE x \in S : TRUE
                       IN  manhattan_distance(ps[e[1]], ps[e[2]]) + Sum(S \ {e})
    IN  Sum(E)

SpanningTrees(k) ==
    {E \in SUBSET {<<i, j>> \in (1..k) \X (1..k) : i < j} :
        Cardinality(E) = k - 1 /\ Spans(k, E)}

IsMinimumSpanningTree(ps, edges) ==
    /\ Len(edges) = Len(ps) - 1
    /\ Spans(Len(ps), Range(edges))
    /\ \A E \in SpanningTrees(Len(ps)) :
          TreeWeight(ps, Range(edges)) <= TreeWeight(ps, E)

\* route_net has just built the tree of a net of three or more pins
MstBuilt == pc = "astar" /\ Len(pins) >= 3 /\ all_paths = <<>>

C6_BuildMstIsMinimum ==
    MstBuilt => IsMinimumSpanningTree(pins, mst_edges)

\* a 4-pin net, two of whose pins coincide, and whose tree is not the star
\* around the first pin
C6_Witness ==
    /\ MstBuilt
    /\ Len(pins) = 4
    /\ \E i, j \in 1..4 : i < j /\ pins[i] = pins[j]
    /\ \E i \in 1..Len(mst_edges) : mst_edges[i][1] # 1

(***************************************************************************)
(* C7: the polyline route_net returns for a net of k >= 3 pins contains    *)
(* every pin position of the net as a waypoint.                            *)
(***************************************************************************)
C7_MultiPinVisitsEveryPin ==
    \A k \in 1..Len(routed_wires) :
        Resolvable(k) >= 3 =>
            Range(pin_positions(nets[k], components)) \subseteq Range(routed_wires[k].path)

(***************************************************************************)
(* C3: the path _astar returns has the least total cost (1 per move, +100  *)
(* per move into a blocked cell, +0.5 per change of direction) among all   *)
(* 4-connected paths from start to goal.                                   *)
(***************************************************************************)
C3_AStarCostOptimal ==
    AStarReturned =>
        PathCost(obstacles, grid_path) <= OptimalCost(obstacles, start, goal)

(***************************************************************************)
(* C4: with no blocked cell in the rectangle spanned by the two pin cells, *)
(* the number of unit steps of the returned path is the Manhattan distance *)
(* between them.                                                           *)
(***************************************************************************)
C4_ObstacleFreeLength ==
    (AStarReturned /\ BBox(start, goal) \cap obstacles = {}) =>
        Len(grid_path) - 1 = Manhattan(start, goal)

C4_Witness ==
    /\ AStarReturned
    /\ BBox(start, goal) \cap obstacles = {}
    /\ Cardinality(obstacles) = MaxObstacles
    /\ start[1] # goal[1] /\ start[2] # goal[2]
    /\ Len(grid_path) = 4

(***************************************************************************)
(* C8: _simplify_path is idempotent: a second pass over the result of a    *)
(* first pass returns it unchanged, for every path handed to it.           *)
(***************************************************************************)
C8_SimplifyIdempotent ==
    sp_passes = 2 => sp_path = sp_prev

\* a path with two corners that lost a collinear point, simplified twice
C8_Witness ==
    /\ sp_passes = 2
    /\ Len(sp_path) >= 4
    /\ Len(sp_input) > Len(sp_path)

(***************************************************************************)
(* C9: four successive 90-degree rotations of an integer pin offset        *)
(* return exactly the offset.                                              *)
(***************************************************************************)
C9_FourRotationsIdentity ==
    rot_count = 4 => rot_current = rot_offset

C9_Witness ==
    /\ rot_count = 4
    /\ rot_offset = <<MaxOffset, -1>>
    /\ rot_current = rot_offset

(***************************************************************************)
(* C10: for the netlist V1 source (VIN, GND), R1 (VIN, VOUT),              *)
(* C1 (VOUT, GND) the topology classifier returns SERIES.                  *)
(***************************************************************************)
C10_RCFilterIsSeries ==
    circuit = RCFilter =>
        /\ topology # NotRun => topology = "SERIES"
        /\ topology_fixed # NotRun => topology_fixed = "SERIES"

(***************************************************************************)
(* C11: one source and two passives that share the same unordered pair     *)
(* of terminal nodes are classified PARALLEL, wherever the source is       *)
(* connected.                                                              *)
(***************************************************************************)
TerminalPair(comp) == {comp.node1, comp.node2}

OneSourceTwoSharingPassives(comps) ==
    /\ Len(comps) = 3
    /\ Cardinality({i \in 1..3 : comps[i].comp_type = "VDC"}) = 1
    /\ \A i, j \in 1..3 :
          (comps[i].comp_type # "VDC" /\ comps[j].comp_type # "VDC")
              => TerminalPair(comps[i]) = TerminalPair(comps[j])

C11_SharedPairIsParallel ==
    OneSourceTwoSharingPassives(circuit) =>
        /\ topology # NotRun => topology = "PARALLEL"
        /\ topology_fixed # NotRun => topology_fixed = "PARALLEL"

(***************************************************************************)
(* C12: the topology classifier is order-independent: the netlist          *)
(* declared in any other order gets the same tag.                          *)
(***************************************************************************)
C12_TagOrderIndependent ==
    (t_topology # NotRun /\ t_other.topology # NotRun) => t_other.topology = t_topology

(***************************************************************************)
(* C14: a component whose type has no library entry does not abort the     *)
(* placement: the placer returns, with the other components placed.        *)
(***************************************************************************)
HasUnknownType ==
    \E i \in DOMAIN t_components : t_components[i].component_type \notin DOMAIN t_library

C14_UnknownTypeDoesNotAbort ==
    (HasUnknownType /\ t_pc \notin {"detect", "place"}) =>
        /\ t_pc = "placed"
        /\ \A i \in DOMAIN t_components :
              t_components[i].component_type \in DOMAIN t_library =>
                  \E k \in DOMAIN t_placed :
                      t_placed[k].reference = t_components[i].reference

(***************************************************************************)
(* C13: placement is deterministic: a second run on the same circuit, tag  *)
(* and layout constants ends the same way and gives every component the    *)
(* same position and rotation, whatever order the set of passives is       *)
(* iterated in.                                                            *)
(***************************************************************************)
Positions(placed) ==
    [i \in DOMAIN placed |->
        <<placed[i].reference, placed[i].x, placed[i].y, placed[i].rotation>>]

C15_EmptyNetlistAborts ==
    p_circuit = <<>> => p_pc \in {"detect", "EmptyNetlist"}

(***************************************************************************)
(* C16: the A* search caps its node expansions at a fixed multiple (ten    *)
(* times) of the number of grid cells of the routing problem, the cells of *)
(* the box around the start and the goal together with the blocked cells;  *)
(* beyond the cap the router falls back to the two-segment path.           *)
(***************************************************************************)
ProblemCells == BBox(start, goal) \cup obstacles

C16_ExpansionsCapped ==
    pc = "astar" => Cardinality(closed_set) <= 10 * Cardinality(ProblemCells)

(***************************************************************************)
(* C17: after the placement of a circuit tagged SERIES the source is at    *)
(* x = 0, the i-th member of the chain of passives is at x = i * spacingH  *)
(* with the y of the source, and the ground, if the circuit has one, is at *)
(* the x of the last chain member, one spacingV below.                     *)
(***************************************************************************)
PlacementOver == p_pc \notin {"detect", "place"}

IsSource(comp) == comp.comp_type \in {"VDC", "VAC"}
IsGround(comp) == comp.comp_type = "GND"
IsPassive(comp) == ~IsSource(comp) /\ ~IsGround(comp)

FirstOf(comps, Is(_)) == comps[CHOOSE i \in DOMAIN comps :
                                  Is(comps[i]) /\ \A j \in 1..(i - 1) : ~Is(comps[j])]

PlacedAt(comp, x, y) ==
    \E k \in DOMAIN p_placed : /\ p_placed[k].reference = comp.reference
                               /\ p_placed[k].x = x
                               /\ p_placed[k].y = y

HasGround == \E i \in DOMAIN p_circuit : IsGround(p_circuit[i])
PassivesOf == {i \in DOMAIN p_circuit : IsPassive(p_circuit[i])}

C17_SeriesLayout ==
    (p_topology = "SERIES" /\ PlacementOver) =>
        \E y \in {p_placed[k].y : k \in DOMAIN p_placed} :
            /\ PlacedAt(FirstOf(p_circuit, IsSource), 0, y)
            /\ \E chain \in [1..Cardinality(PassivesOf) -> PassivesOf] :
                  /\ \A i, j \in DOMAIN chain : chain[i] = chain[j] => i = j
                  /\ \A i \in DOMAIN chain :
                        PlacedAt(p_circuit[chain[i]], i * COMPONENT_SPACING_H, y)
            /\ HasGround =>
                  PlacedAt(FirstOf(p_circuit, IsGround),
                           Cardinality(PassivesOf) * COMPONENT_SPACING_H,
                           y + COMPONENT_SPACING_V)

(***************************************************************************)
(* C18: after the placement of a circuit tagged PARALLEL the source is at  *)
(* x = 0, the j-th passive (j = 0..n-1, in declaration order) is at        *)
(* x = 2 * spacingH, y = y_start + j * spacingV, and the ground, if the    *)
(* circuit has one, is at x = 3 * spacingH with its y midway between the   *)
(* first and the last passive.                                             *)
(***************************************************************************)
PassiveList == LET Is(c) == IsPassive(c) IN SelectSeq(p_circuit, Is)

C18_ParallelLayout ==
    (p_topology = "PARALLEL" /\ PlacementOver) =>
        \E y_source, y_start \in {p_placed[k].y : k \in DOMAIN p_placed} :
            /\ PlacedAt(FirstOf(p_circuit, IsSource), 0, y_source)
            /\ \A j \in 0..(Len(PassiveList) - 1) :
                  PlacedAt(PassiveList[j + 1], 2 * COMPONENT_SPACING_H,
                           y_start + j * COMPONENT_SPACING_V)
            /\ HasGround =>
                  \E y_ground \in {p_placed[k].y : k \in DOMAIN p_placed} :
                      /\ PlacedAt(FirstOf(p_circuit, IsGround),
                                  3 * COMPONENT_SPACING_H, y_ground)
                      /\ 2 * y_ground
                            = 2 * y_start + (Len(PassiveList) - 1) * COMPONENT_SPACING_V

(***************************************************************************)
(* C19: after the placement of a circuit of n components tagged GENERIC    *)
(* the components lie on a row-major grid of ceil(sqrt(1.5 * n)) columns:  *)
(* component number idx is in column idx mod cols and row idx div cols.    *)
(***************************************************************************)
\* ceil(sqrt(1.5 * n)) for n >= 1
GridColumns(n) ==
    CHOOSE cols \in 1..(n + 1) :
        2 * cols * cols >= 3 * n /\ 2 * (cols - 1) * (cols - 1) < 3 * n

C19_GenericGrid ==
    (p_topology = "GENERIC" /\ PlacementOver) =>
        /\ Len(p_placed) = Len(p_circuit)
        /\ \A idx \in 0..(Len(p_circuit) - 1) :
              LET cols == GridColumns(Len(p_circuit))
              IN  /\ p_placed[idx + 1].reference = p_circuit[idx + 1].reference
                  /\ p_placed[idx + 1].x = (idx % cols) * COMPONENT_SPACING_H
                  /\ p_placed[idx + 1].y = (idx \div cols) * COMPONENT_SPACING_V

(***************************************************************************)
(* C20: for a placed component with rotation r in {0, 90, 180, 270} every  *)
(* resolved pin position is anchor + R_r(dx, dy), with R_0 the identity,   *)
(* R_90(dx, dy) = (-dy, dx), R_180(dx, dy) = (-dx, -dy) and                *)
(* R_270(dx, dy) = (dy, -dx).                                              *)
(***************************************************************************)
R(r, offset) ==
    CASE r = 0   -> offset
      [] r = 90  -> <<-offset[2], offset[1]>>
      [] r = 180 -> <<-offset[1], -offset[2]>>
      [] r = 270 -> <<offset[2], -offset[1]>>

AnchorPlus(offset) ==
    <<pr_placed.x + R(pr_placed.rotation, offset)[1],
      pr_placed.y + R(pr_placed.rotation, offset)[2]>>

Resolved(positions) ==
    positions # <<>> =>
        /\ Len(positions) = Len(pr_offsets)
        /\ \A k \in DOMAIN pr_offsets : positions[k] = AnchorPlus(pr_offsets[k])

C20_PinIsAnchorPlusRotation ==
    Resolved(pr_placed.pin_positions) /\ Resolved(pr_positions)

C20_Witness ==
    /\ pr_placed.rotation = 270
    /\ pr_placed.x = 1 /\ pr_placed.y = 0
    /\ pr_offsets = << <<1, 2>>, <<-2, 0>> >>
    /\ pr_placed.pin_positions = << <<3, -1>>, <<1, 2>> >>
    /\ pr_positions = pr_placed.pin_positions

(***************************************************************************)
(* C21: routing a net with fewer than 2 resolvable pins is a no-op:        *)
(* route_net returns a Wire with an empty waypoint list, starts no search  *)
(* and leaves the obstacle set and the recorded wire segments unchanged.   *)
(***************************************************************************)
\* endpoints of the k-th net whose component and pin both exist
ResolvableEnds(k) ==
    {i \in DOMAIN nets[k].pins :
        \E c \in DOMAIN components :
            /\ components[c].reference = nets[k].pins[i][1]
            /\ \E q \in DOMAIN components[c].pins :
                  components[c].pins[q].id = nets[k].pins[i][2]}

\* main is about to call route_net on a net with fewer than 2 resolvable pins
ShortNetNext ==
    /\ pc = "idle"
    /\ Len(routed_wires) < Len(nets)
    /\ Cardinality(ResolvableEnds(Len(routed_wires) + 1)) < 2

C21_ShortNetIsNoOp ==
    [][ShortNetNext =>
          /\ routed_wires' = Append(routed_wires,
                                    Wire(nets[Len(routed_wires) + 1].name, <<>>))
          /\ UNCHANGED <<obstacles, wire_segments, pc, astarVars>>]_vars

\* the short net has been routed after a net that recorded segments
C21_Witness ==
    /\ obstacles # {}
    /\ wire_segments # <<>>
    /\ \E k \in 1..Len(routed_wires) :
          /\ Cardinality(ResolvableEnds(k)) = 1
          /\ routed_wires[k].path = <<>>

(***************************************************************************)
(* C22: once the grid has been built from the placed components, no        *)
(* sequence of route_net calls changes the set of blocked cells or the     *)
(* placed components.                                                      *)
(***************************************************************************)
GridBuilt == pc # "load"

C22_GridReadOnly ==
    [][GridBuilt => UNCHANGED <<obstacles, components>>]_vars

\* every net of a three-net netlist has been routed on a grid with a wall
C22_Witness ==
    /\ GridBuilt
    /\ Len(nets) = 3
    /\ Len(routed_wires) = Len(nets)
    /\ wire_segments # <<>>
    /\ Cardinality(obstacles) > Len(components)

(***************************************************************************)
(* C23: no state is shared across nets besides the grid: whatever the      *)
(* order in which the nets are routed on one router and however their      *)
(* route_net calls interleave, the Wire of each net is the Wire route_net  *)
(* gives for that net alone on a fresh router with the same obstacles.     *)
(***************************************************************************)
NetNamed(name) == nets[CHOOSE k \in DOMAIN nets : nets[k].name = name]

C23_WireAsRoutedAlone ==
    \A w \in DOMAIN routed_wires :
        routed_wires[w]
            = route_net(NetNamed(routed_wires[w].net_name), components,
                        set_obstacles_from_components({}, components))

\* a call returned a wire with a corner while a second call was in the
\* middle of a search and a third in the middle of recording its segments,
\* the segment at the end of wire_segments being another call's
C23_Witness ==
    /\ \E w \in DOMAIN routed_wires : Len(routed_wires[w].path) >= 3
    /\ \E j, k \in DOMAIN in_flight :
          /\ j # k
          /\ in_flight[j].search.grid_path = <<>> /\ in_flight[j].search.closed_set # {}
          /\ in_flight[k].path # <<>>
          /\ in_flight[k].i > 0 /\ in_flight[k].i < Len(in_flight[k].path) - 1
          /\ wire_segments[Len(wire_segments)] # path_segments(in_flight[k].path)[in_flight[k].i]

(***************************************************************************)
(* C24: obstacles being soft, _astar always terminates with a real path,   *)
(* also when the start or the goal cell is blocked: the path begins at     *)
(* start, ends at goal, moves in unit up/down/left/right steps and visits  *)
(* no cell twice.                                                          *)
(***************************************************************************)
UnitSteps(path) ==
    \A i \in 1..(Len(path) - 1) :
        Abs(path[i + 1][1] - path[i][1]) + Abs(path[i + 1][2] - path[i][2]) = 1

NoRevisit(path) == \A i, j \in DOMAIN path : path[i] = path[j] => i = j

RealPath(path) ==
    /\ path[1] = start
    /\ path[Len(path)] = goal
    /\ UnitSteps(path)
    /\ NoRevisit(path)

\* a pass through the loop of the search returns, closes a cell that was
\* open, or only discards entries of the open set: with finitely many cells
\* closed in a run, the loop cannot go on forever
SearchProgress ==
    \/ grid_path' # <<>>
    \/ closed_set \subseteq closed_set' /\ closed_set' # closed_set
    \/ closed_set' = closed_set /\ Len(open_set') < Len(open_set)

C24_SearchEndsWithRealPath ==
    /\ [](AStarReturned => RealPath(grid_path))
    /\ [](pc = "astar" /\ grid_path = <<>> => open_set # <<>>)
    /\ [][SearchProgress]_vars

\* the search returned after paying the penalty to enter a blocked goal from
\* a blocked start
C24_Witness ==
    /\ AStarReturned
    /\ start \in obstacles /\ goal \in obstacles
    /\ Len(grid_path) = 3
    /\ Cardinality(closed_set) > SearchChunk

(***************************************************************************)
(* C25: when blocked cells force a detour, the returned path has the       *)
(* fewest direction changes among all paths between the two pin cells that *)
(* avoid the blocked cells and have the same length.                       *)
(***************************************************************************)
Turns(path) ==
    Cardinality({i \in 3..Len(path) : is_direction_change(path[i-2], path[i-1], path[i])})

\* cells a path of n steps from s to g can pass through
Reachable(obs, s, g, n) ==
    {c \in ((s[1] - n)..(s[1] + n)) \X ((s[2] - n)..(s[2] + n)) :
        c \notin obs /\ Manhattan(s, c) + Manhattan(c, g) <= n}

\* d[<<c, k>>] is {} or {fewest turns of a free path of the steps taken so
\* far that ends in c with a move in direction k}; one more step
TurnStep(cells, d) ==
    [st \in cells \X (1..4) |->
        LET prev == OptPrev(st[1], st[2])
            cands == IF prev \notin cells THEN {}
                     ELSE UNION {{v + (IF pk # st[2] THEN 1 ELSE 0) :
                                     v \in d[<<prev, pk>>]} : pk \in 1..4}
        IN  IF cands = {} THEN {} ELSE {SetMin(cands)}]

\* fewest turns of a path of exactly n >= 1 steps from s to g through free
\* cells (n + 1 when there is no such path)
FewestTurns(obs, s, g, n) ==
    LET cells == Reachable(obs, s, g, n)
        RECURSIVE Layer(_, _)
        Layer(k, d) == IF k = n THEN d ELSE Layer(k + 1, TurnStep(cells, d))
        first == [st \in cells \X (1..4) |->
                     IF OptPrev(st[1], st[2]) = s THEN {0} ELSE {}]
        last == Layer(1, first)
        ends == UNION {last[<<g, k>>] : k \in 1..4}
    IN  IF ends = {} THEN n + 1 ELSE SetMin(ends)

\* no path through free cells is as short as the Manhattan distance, and the
\* returned path stays on free cells
DetourForced ==
    /\ AStarReturned
    /\ start \notin obstacles /\ goal \notin obstacles
    /\ FreeDistance(obstacles, start, goal) > Manhattan(start, goal)
    /\ Range(grid_path) \cap obstacles = {}

C25_DetourHasFewestTurns ==
    DetourForced =>
        Turns(grid_path) <= FewestTurns(obstacles, start, goal, Len(grid_path) - 1)

(***************************************************************************)
(* C26: a 2-pin net routed on a grid with no blocked cells gets a wire of  *)
(* exactly 2 waypoints when the pins lie on the same grid row or column    *)
(* and of exactly 3 waypoints otherwise.                                   *)
(***************************************************************************)
\* the two pin positions of the k-th net, in declaration order
PinOf(k, i) ==
    LET comp == components[CHOOSE c \in DOMAIN components :
                               components[c].reference = nets[k].pins[i][1]]
    IN  comp.pins[CHOOSE q \in DOMAIN comp.pins :
                      comp.pins[q].id = nets[k].pins[i][2]].position

\* grid row and column of a pixel coordinate pair
CellOf(pos) == <<TruncDiv(pos[1], GRID_SIZE), TruncDiv(pos[2], GRID_SIZE)>>

SameRowOrColumn(a, b) == a[1] = b[1] \/ a[2] = b[2]

C26_FewestWaypoints ==
    \A k \in 1..Len(routed_wires) :
        (obstacles = {} /\ Len(nets[k].pins) = 2 /\ Cardinality(ResolvableEnds(k)) = 2) =>
            Len(routed_wires[k].path)
                = IF SameRowOrColumn(CellOf(PinOf(k, 1)), CellOf(PinOf(k, 2))) THEN 2 ELSE 3

(***************************************************************************)
(* C28: a wire routed for a 2-pin net terminates exactly on the pins: its  *)
(* first waypoint is the first pin's position and its last waypoint is the *)
(* second pin's position, for every pin coordinate, multiples of grid_size *)
(* or not, negative or not.                                                *)
(***************************************************************************)
C28_WireEndsOnPins ==
    \A k \in 1..Len(routed_wires) :
        (Len(nets[k].pins) = 2 /\ Cardinality(ResolvableEnds(k)) = 2) =>
            LET path == routed_wires[k].path
            IN  /\ path # <<>>
                /\ path[1] = PinOf(k, 1)
                /\ path[Len(path)] = PinOf(k, 2)

(***************************************************************************)
(* C27: a component whose type has no library entry stays in the placed    *)
(* output with an empty pin set, and every net endpoint on it is skipped   *)
(* by the routing: a net is routed over its remaining endpoints only, and  *)
(* gets no wire when fewer than 2 endpoints remain.                        *)
(***************************************************************************)
UnknownType(comp) == comp.comp_type \notin DOMAIN p_library

\* the placed record of a reference (the reference is placed)
PlacedOf(ref) == p_placed[CHOOSE k \in DOMAIN p_placed : p_placed[k].reference = ref]

\* an endpoint the routing can use: its component is placed, of a known
\* type, and has a pin of that number
RemainingEnd(pin) ==
    /\ \E k \in DOMAIN p_placed : p_placed[k].reference = pin[1]
    /\ ~UnknownType(PlacedOf(pin[1]))
    /\ pin[2] <= Len(p_library[PlacedOf(pin[1]).comp_type])

RemainingEnds(net) == SelectSeq(net.pins, RemainingEnd)

\* the position of a remaining endpoint: anchor plus library offset
EndPosition(pin) ==
    LET at == PlacedOf(pin[1])
        offset == p_library[at.comp_type][pin[2]]
    IN  <<at.x + offset[1], at.y + offset[2]>>

RoutableNet(net) == Len(RemainingEnds(net)) >= 2

C27_UnknownTypeSkipped ==
    (p_version = "textbook" /\ p_pc = "done") =>
        /\ \A i \in DOMAIN p_circuit :
              UnknownType(p_circuit[i]) =>
                  /\ Cardinality({k \in DOMAIN p_placed :
                          p_placed[k].reference = p_circuit[i].reference}) = 1
                  /\ PlacedOf(p_circuit[i].reference).pin_positions = <<>>
        /\ LET routable == SelectSeq(circuit_nets(p_circuit), RoutableNet)
           IN  /\ Len(p_wires) = Len(routable)
               /\ \A w \in DOMAIN p_wires :
                     LET ends == RemainingEnds(routable[w])
                         waypoints == p_wires[w].waypoints
                     IN  /\ p_wires[w].net_name = routable[w].name
                         /\ waypoints[1] = EndPosition(ends[1])
                         /\ waypoints[Len(waypoints)] = EndPosition(ends[Len(ends)])
                         /\ \A e \in DOMAIN ends :
                               \E p \in DOMAIN waypoints : waypoints[p] = EndPosition(ends[e])

\* a finished run on a netlist with a component of unknown type on a net
\* that still gets a wire, and on a net that gets none
C27_Witness ==
    /\ p_version = "textbook" /\ p_pc = "done"
    /\ \E i \in DOMAIN p_circuit : UnknownType(p_circuit[i])
    /\ \E n \in DOMAIN circuit_nets(p_circuit) :
          LET net == circuit_nets(p_circuit)[n]
          IN  /\ RoutableNet(net)
              /\ Len(RemainingEnds(net)) < Len(net.pins)
              /\ \E q \in DOMAIN net.pins :
                    \E i \in DOMAIN p_circuit :
                        /\ p_circuit[i].reference = net.pins[q][1]
                        /\ UnknownType(p_circuit[i])
    /\ \E n \in DOMAIN circuit_nets(p_circuit) :
          LET net == circuit_nets(p_circuit)[n]
          IN  Len(net.pins) >= 2 /\ ~RoutableNet(net)

(***************************************************************************)
(* C29: the placement neither drops nor duplicates a component: once it    *)
(* is over, every component of the netlist is in the placed list exactly   *)
(* once, whatever the tag and however many sources or grounds there are.   *)
(***************************************************************************)
TimesPlaced(comp) ==
    Cardinality({k \in DOMAIN p_placed : p_placed[k].reference = comp.reference})

C29_EveryComponentPlacedOnce ==
    PlacementOver =>
        /\ Len(p_placed) = Len(p_circuit)
        /\ \A i \in DOMAIN p_circuit : TimesPlaced(p_circuit[i]) = 1

(***************************************************************************)
(* C30: a SERIES tag implies a real linear chain: whenever _detect_topology *)
(* returns SERIES, the chain _build_series_chain builds holds every        *)
(* passive exactly once, its first member touches the source's output      *)
(* node, every two consecutive members share a node, and the branch that   *)
(* appends the remaining passives in arbitrary order is not taken, i.e.    *)
(* every member touches the node the walk has reached.                     *)
(***************************************************************************)
\* the netlist line of a placed component
LineOf(placed) ==
    p_circuit[CHOOSE i \in DOMAIN p_circuit : p_circuit[i].reference = placed.reference]

\* the chain as _place_series laid it out, left to right
PlacedChain ==
    LET InChain(placed) == IsPassive(placed)
        members == SelectSeq(p_placed, InChain)
    IN  [i \in DOMAIN members |-> LineOf(members[i])]

NodesOf(comp) == {comp.node1, comp.node2}

\* every member of the chain touches the node reached so far (the for loop
\* of _build_series_chain found it, the else branch was not taken)
RECURSIVE FollowsConnectivity(_, _)
FollowsConnectivity(chain, current_node) ==
    IF chain = <<>> THEN TRUE
    ELSE /\ current_node \in NodesOf(Head(chain))
         /\ FollowsConnectivity(Tail(chain),
                IF Head(chain).node1 = current_node THEN Head(chain).node2
                ELSE Head(chain).node1)

C30_SeriesTagMeansChain ==
    (p_version = "textbook" /\ p_topology = "SERIES" /\ PlacementOver) =>
        LET source == FirstOf(p_circuit, IsSource)
            chain == PlacedChain
        IN  /\ Len(chain) = Len(PassiveList)
            /\ \A j \in DOMAIN PassiveList :
                  Cardinality({i \in DOMAIN chain : chain[i] = PassiveList[j]}) = 1
            /\ source.node2 \in NodesOf(chain[1])
            /\ \A i \in 1..(Len(chain) - 1) :
                  NodesOf(chain[i]) \cap NodesOf(chain[i + 1]) # {}
            /\ FollowsConnectivity(chain, source.node2)

====
